---- MODULE Spec2Model ----
(***************************************************************************)
(* Curve-phase meta-phenotype extraction and cross-curve phase alignment   *)
(* of scanomatic/data_processing/phases/features.py.                       *)
(*                                                                         *)
(* Floating point values are modelled as exact extended rationals: a value *)
(* is a record [k, n, d] with k = "num" (n/d, d > 0, reduced), "inf" (n    *)
(* the sign), or "nan".  A Python exception that leaves a function is a    *)
(* value whose k names the exception.  Positions in a phase vector are     *)
(* Python positions (0-based); At(v, i) reads position i.                  *)
(***************************************************************************)
EXTENDS Integers, Sequences, FiniteSets, TLC

VARIABLES
    plate,            \* the plate: a sequence of cells, each a phase vector
    phenotypes,       \* per cell: ExperimentLowPoint / ExperimentLowPointWhen
    meta_phenotype,   \* the kind last asked of extract_phenotypes
    ret,              \* what extract_phenotypes returned (or raised)
    \* get_phase_phenotypes_aligned: its inputs, its locals and its outcome
    filt,             \* the plate's curve QC filter: TRUE rejects the curve
    end_time,         \* phenotypes.times.max()
    al_pc,            \* "idle", "loop", "returned" or "raised"
    al_exc,           \* the exception that left the call, "None" if none
    plate_data,       \* the eligible curves' phase vectors
    coords,           \* the plate position of each eligible curve
    major_idx,        \* the major impulse position of each eligible curve
    phases,           \* the phase slots: Type, Members, Anchor
    major_phase_id,   \* the position given to the major Impulse slot
    n,                \* the refinement pass, from 0
    id_curve,         \* the curve the pass is at
    id_phase,         \* the segment of that curve the pass is at
    prev_phase,       \* slot of the curve's previous segment, NoneId if None
    side,             \* "Left", "Right" or "Both"
    first_run,
    aligned,          \* the returned tensor and slot descriptor
    call,             \* the last step applied to the slots on its own
    \* the segmentation of a curve: its input and its outcome
    curve,            \* the samples and the minimum segment length
    segments,         \* the segments found
    \* the job server: Server, Queue, Jobs, ScannerPowerManager and the RPC
    \* interface of InterfaceBuilder
    som_server,       \* _SOM_SERVER: a position in servers, NoServer if None
    servers,          \* every Server made: _running, _started, ...
    loops,            \* every _run thread started: its server and position
    queue,            \* Queue._queue: the queued job models, in list order
    next_priority,    \* Queue._next_priority
    jobs,             \* Jobs._jobs: the active job models and processes
    forcingStop,      \* Jobs._forcingStop
    scanners,         \* ScannerPowerManager._scanners: owner and power
    connected,        \* ScannerPowerManager._pm is not None
    next_id,          \* the id the next enqueued job gets
    rpc_server,       \* _RPC_SERVER: "up" while it takes requests
    restart,          \* _restart_server_thread: "idle" or "waiting"
    rpc,              \* the last RPC call: method, user, returned value,
                      \* and wait_for_jobs_to_stop where the method has it
    \* PhenotyperState
    state,            \* the attributes of the state object
    wiped             \* the keep_filter of the last wipe, "none" before it

meta_vars == <<plate, phenotypes, meta_phenotype, ret>>

align_vars ==
    <<filt, end_time, al_pc, al_exc, plate_data, coords, major_idx, phases,
      major_phase_id, n, id_curve, id_phase, prev_phase, side, first_run,
      aligned, call>>

seg_vars == <<curve, segments>>

srv_vars ==
    <<som_server, servers, loops, queue, next_priority, jobs, forcingStop,
      scanners, connected, next_id, rpc_server, restart, rpc>>

st_vars == <<state, wiped>>

other_vars == <<srv_vars, st_vars>>

vars == <<meta_vars, align_vars, seg_vars, other_vars>>

(***************************** bounds **************************************)
MaxLen == 4            \* longest phase vector of the yield-ranking plates
MaxLagLen == 3         \* longest phase vector of the lag plates
MaxAltLen == 2         \* longest phase vector of the low-point lag plates
MaxCountLen == 4       \* longest phase vector of the counting plates
MaxPlateSegments == 3  \* most segments on a plate of several cells
MaxMalformedLen == 2   \* longest phase vector holding malformed entries
MaxAlignSegments == 4  \* most segments on an aligned plate
MaxSlotSegments == 4   \* most segments on a plate whose slots are stepped
MaxCalls == 2          \* most steps applied to the slots of a plate
MaxLeadingGaps == 1    \* most Undetermined segments opening a rising curve
MaxLeftFlats == 4      \* most Flat segments before a rising curve's Impulse
MaxSlots == 3          \* most drawn slots at the end of a pass
MaxMembers == 2        \* most members of a drawn slot
MaxCurves == 21        \* most curves of a plate whose slots are drawn
MaxRavelCells == 3     \* most cells of a plate whose tensor is returned
MaxSamples == 4        \* most samples of a segmented curve
MaxMinLength == 3      \* largest minimum segment length

(***************************** enumerations ********************************)
Undetermined == "Undetermined"
Flat == "Flat"
GrowthAcceleration == "GrowthAcceleration"
GrowthRetardation == "GrowthRetardation"
Impulse == "Impulse"
Collapse == "Collapse"

CurvePhases ==
    {Undetermined, Flat, GrowthAcceleration, GrowthRetardation, Impulse,
     Collapse}

PopulationDoublings == "PopulationDoublings"
PopulationDoublingTime == "PopulationDoublingTime"
LinearModelSlope == "LinearModelSlope"
LinearModelIntercept == "LinearModelIntercept"
AsymptoteAngle == "AsymptoteAngle"
AsymptoteIntersection == "AsymptoteIntersection"
Start == "Start"
Duration == "Duration"

CurvePhaseMetaPhenotypes ==
    {"MajorImpulseYieldContribution", "FirstMinorImpulseYieldContribution",
     "MajorImpulseAveragePopulationDoublingTime",
     "FirstMinorImpulseAveragePopulationDoublingTime",
     "MajorImpulseFlankAsymmetry",
     "InitialAccelerationAsymptoteAngle", "FinalRetardationAsymptoteAngle",
     "InitialAccelerationAsymptoteIntersect",
     "FinalRetardationAsymptoteIntersect",
     "InitialLag", "InitialLagAlternativeModel", "TimeBeforeMajorGrowth",
     "Modalities", "ModalitiesAlternativeModel", "Collapses"}

is_detected_non_linear(phase) ==
    phase \in {GrowthAcceleration, GrowthRetardation, Collapse}

(***************************** float values ********************************)
Abs(x) == IF x < 0 THEN -x ELSE x

RECURSIVE Gcd(_, _)
Gcd(a, b) == IF b = 0 THEN a ELSE Gcd(b, a % b)

NaN == [k |-> "nan", n |-> 0, d |-> 0]
PosInf == [k |-> "inf", n |-> 1, d |-> 0]
NegInf == [k |-> "inf", n |-> -1, d |-> 0]

Rat(num, den) ==
    LET s == IF den < 0 THEN -1 ELSE 1
        g == Gcd(Abs(num), Abs(den))
    IN  [k |-> "num", n |-> (s * num) \div g, d |-> (s * den) \div g]

Num(x) == [k |-> "num", n |-> x, d |-> 1]

Raise(e) == [k |-> e, n |-> 0, d |-> 0]

Exceptions == {"TypeError", "ValueError", "IndexError"}

IsRaise(x) == x.k \in Exceptions
IsNaN(x) == x.k = "nan"
IsNum(x) == x.k = "num"
IsFloat(x) == x.k \in {"num", "inf", "nan"}

\* np.isfinite
IsFinite(x) == x.k = "num"

\* x < 0 and x >= 0 on floats: every comparison with NaN is false
LtZero(x) == (x.k = "num" /\ x.n < 0) \/ (x.k = "inf" /\ x.n < 0)
GeZero(x) == (x.k = "num" /\ x.n >= 0) \/ (x.k = "inf" /\ x.n > 0)

\* a < b on floats
Lt(a, b) ==
    CASE a.k = "nan" \/ b.k = "nan" -> FALSE
      [] a.k = "inf" /\ b.k = "inf" -> a.n < b.n
      [] a.k = "inf" -> a.n < 0
      [] b.k = "inf" -> b.n > 0
      [] OTHER -> a.n * b.d < b.n * a.d

Neg(a) ==
    CASE a.k = "num" -> Rat(-a.n, a.d)
      [] a.k = "inf" -> [a EXCEPT !.n = -a.n]
      [] OTHER -> a

\* a - b on floats
Sub(a, b) ==
    CASE a.k = "nan" \/ b.k = "nan" -> NaN
      [] a.k = "inf" /\ b.k = "inf" -> IF a.n = b.n THEN NaN ELSE a
      [] a.k = "inf" -> a
      [] b.k = "inf" -> Neg(b)
      [] OTHER -> Rat(a.n * b.d - b.n * a.d, a.d * b.d)

\* a / b on numpy floats: a division by zero gives inf or nan, never raises
Div(a, b) ==
    CASE a.k = "nan" \/ b.k = "nan" -> NaN
      [] a.k = "inf" /\ b.k = "inf" -> NaN
      [] a.k = "inf" -> IF b.n < 0 THEN Neg(a) ELSE a
      [] b.k = "inf" -> Num(0)
      [] b.n = 0 ->
            IF a.n = 0 THEN NaN ELSE IF a.n > 0 THEN PosInf ELSE NegInf
      [] OTHER -> Rat(a.n * b.d, a.d * b.n)

\* np.log2 on the powers of two the model draws low points from
RECURSIVE Log2(_)
Log2(x) == IF x <= 1 THEN 0 ELSE 1 + Log2(x \div 2)

(***************************** phase vectors *******************************)
\* A (phase, phenotypes) entry.  arity 2 is the well-formed pair; arity 0 is
\* a non-iterable entry (None); arity 1 and 3 are tuples of the wrong length.
\* data.isNone is the phenotypes dict being None.
NoneData ==
    [isNone |-> TRUE, PopulationDoublings |-> 0, PopulationDoublingTime |-> 0,
     LinearModelSlope |-> 0, LinearModelIntercept |-> 0, AsymptoteAngle |-> 0,
     AsymptoteIntersection |-> 0, Start |-> 0, Duration |-> 0]

Entry(t, data) == [arity |-> 2, type |-> t, data |-> data]

\* cell.isNone is the cell holding None instead of a sequence
Cell(v) == [isNone |-> FALSE, v |-> v]
NoneCell == [isNone |-> TRUE, v |-> <<>>]

At(v, i) == v[i + 1]

\* Unpacking "for a, b in v": the first entry that is not a pair decides.
\* None: all entries unpack; otherwise the exception the unpacking raises.
UnpackError(v) ==
    IF \A i \in 1..Len(v) : v[i].arity = 2 THEN "None"
    ELSE LET i == CHOOSE i \in 1..Len(v) :
                    /\ v[i].arity # 2
                    /\ \A j \in 1..(i - 1) : v[j].arity = 2
         IN  IF v[i].arity = 0 THEN "TypeError" ELSE "ValueError"

\* The Python positions, from TLA index i on, of the entries of v of type phase
RECURSIVE SelectIdx(_, _, _)
SelectIdx(v, phase, i) ==
    IF i > Len(v) THEN <<>>
    ELSE (IF v[i].type = phase THEN <<i - 1>> ELSE <<>>)
         \o SelectIdx(v, phase, i + 1)

(***************************** argsort *************************************)
\* A sort key: a doublings value, or -inf
Key(x) == [inf |-> FALSE, v |-> x]
MinusInf == [inf |-> TRUE, v |-> 0]

KeyLess(a, b) ==
    \/ a.inf /\ ~b.inf
    \/ ~a.inf /\ ~b.inf /\ a.v < b.v

\* 0-based rank of keys[i] in the stable ascending order
RankOf(keys, i) ==
    Cardinality({j \in 1..Len(keys) :
        \/ KeyLess(keys[j], keys[i])
        \/ keys[j] = keys[i] /\ j < i})

\* np.argsort: at position k the (Python) index of the k-th smallest key
ArgSort(keys) ==
    [k \in 1..Len(keys) |->
        (CHOOSE i \in 1..Len(keys) : RankOf(keys, i) = k - 1) - 1]

\* p_data[PopulationDoublings] if truthy else -inf
DoublingsKey(data) ==
    IF data[PopulationDoublings] # 0 THEN Key(data[PopulationDoublings])
    ELSE MinusInf

(***************************** per-cell helpers ****************************)
\* the cell function f of filter_plate_custom_filter.  need is the least
\* number of matching phases phases_requirement accepts; selector names the
\* phase_selector: "first" (phases[0]), "last" (phases[-1]), "major"
\* (argsort of doublings, [-1]) or "minor" (argsort of doublings, [-2]).
SelectPhase(matched, selector) ==
    CASE selector = "first" -> Num(0)
      [] selector = "last" -> Num(Len(matched) - 1)
      [] OTHER ->
            IF \E i \in 1..Len(matched) : matched[i].isNone
            THEN Raise("TypeError")
            ELSE LET keys == [i \in 1..Len(matched) |-> DoublingsKey(matched[i])]
                     so == ArgSort(keys)
                 IN  IF selector = "major" THEN Num(so[Len(so)])
                     ELSE Num(so[Len(so) - 1])

\* the filter without its phases_requirement test
filter_plate_custom_filter_unchecked(cell, phase, measure, need, selector) ==
    IF cell.isNone THEN NaN
    ELSE IF UnpackError(cell.v) = "TypeError" THEN NaN
    ELSE IF UnpackError(cell.v) = "ValueError" THEN Raise("ValueError")
    ELSE LET idx == SelectIdx(cell.v, phase, 1)
             matched == [i \in 1..Len(idx) |-> At(cell.v, idx[i]).data]
         IN  IF Len(matched) = 0 \/ (selector = "minor" /\ Len(matched) < 2)
             THEN Raise("IndexError")
             ELSE LET sel == SelectPhase(matched, selector)
                  IN  IF IsRaise(sel) THEN NaN
                      ELSE IF At(matched, sel.n).isNone THEN NaN
                      ELSE Num(At(matched, sel.n)[measure])

filter_plate_custom_filter(cell, phase, measure, need, selector) ==
    IF cell.isNone THEN NaN
    ELSE IF UnpackError(cell.v) = "TypeError" THEN NaN
    ELSE IF UnpackError(cell.v) = "ValueError" THEN Raise("ValueError")
    ELSE LET idx == SelectIdx(cell.v, phase, 1)
             matched == [i \in 1..Len(idx) |-> At(cell.v, idx[i]).data]
         IN  IF Len(matched) < need THEN NaN
             ELSE LET sel == SelectPhase(matched, selector)
                  IN  IF IsRaise(sel) THEN NaN
                      ELSE IF At(matched, sel.n).isNone THEN NaN
                      ELSE Num(At(matched, sel.n)[measure])

\* the cell function f of filter_plate_on_phase_id
filter_plate_on_phase_id(cell, phase_id, measure) ==
    IF LtZero(phase_id) THEN NaN
    ELSE IF cell.isNone \/ ~IsNum(phase_id) THEN NaN
    ELSE IF phase_id.n >= Len(cell.v) THEN Raise("IndexError")
    ELSE LET e == At(cell.v, phase_id.n)
         IN  IF e.arity = 0 THEN NaN
             ELSE IF e.arity = 1 THEN Raise("IndexError")
             ELSE IF e.data.isNone THEN NaN
             ELSE Num(e.data[measure])

\* _get_phase_id.f demanding that the wanted phases follow each other
\* directly: a mismatch after a partial match starts the match over
RECURSIVE PhaseIdScanAdjacent(_, _, _, _)
PhaseIdScanAdjacent(v, wanted, pos, i) ==
    IF pos > Len(v) THEN -1
    ELSE IF v[pos].type = wanted[i + 1]
         THEN IF i + 1 = Len(wanted) THEN pos - 1
              ELSE PhaseIdScanAdjacent(v, wanted, pos + 1, i + 1)
         ELSE IF v[pos].type = wanted[1]
              THEN PhaseIdScanAdjacent(v, wanted, pos + 1, 1)
              ELSE PhaseIdScanAdjacent(v, wanted, pos + 1, 0)

\* the loop of _get_phase_id.f over the phase types v from TLA index pos on,
\* i phases of the wanted sequence already matched
RECURSIVE PhaseIdScan(_, _, _, _)
PhaseIdScan(v, wanted, pos, i) ==
    IF pos > Len(v) THEN -1
    ELSE IF v[pos].type = wanted[i + 1]
         THEN IF i + 1 = Len(wanted) THEN pos - 1
              ELSE PhaseIdScan(v, wanted, pos + 1, i + 1)
         ELSE PhaseIdScan(v, wanted, pos + 1, i)

\* the cell function f of _get_phase_id
get_phase_id(cell, wanted) ==
    IF cell.isNone THEN Num(-1)
    ELSE IF \E i \in 1..Len(cell.v) : cell.v[i].arity = 0 THEN Num(-1)
    ELSE IF Len(cell.v) = 0 THEN Raise("IndexError")
    ELSE Num(PhaseIdScan(cell.v, wanted, 1, 0))

\* _phase_finder: the positions of the entries of type phase
phase_finder(cell, phase) ==
    IF cell.isNone THEN [raised |-> FALSE, idx |-> <<>>]
    ELSE IF UnpackError(cell.v) = "TypeError"
         THEN [raised |-> FALSE, idx |-> <<>>]
    ELSE IF UnpackError(cell.v) = "ValueError"
         THEN [raised |-> TRUE, idx |-> <<>>]
    ELSE [raised |-> FALSE, idx |-> SelectIdx(cell.v, phase, 1)]

\* sum(1 for phase in phase_vector if phase[0] == wanted), -1 on TypeError
PhaseCounter(cell, wanted) ==
    IF cell.isNone THEN -1
    ELSE IF \E i \in 1..Len(cell.v) : cell.v[i].arity = 0 THEN -1
    ELSE Len(SelectIdx(cell.v, wanted, 1))

py_impulse_counter(cell) == PhaseCounter(cell, Impulse)

py_collapse_counter(cell) == PhaseCounter(cell, Collapse)

\* data[data < 0] = np.nan
NegativeToNaN(x) == IF x < 0 THEN NaN ELSE Num(x)

np_ma_impulse_counter(cell) == NegativeToNaN(py_impulse_counter(cell))

np_ma_collapse_counter(cell) == NegativeToNaN(py_collapse_counter(cell))

\* phase_vector[a:b]
Slice(v, a, b) == SubSeq(v, a + 1, b)

\* the inner counter counting up to the end of the vector
py_inner_impulse_counter_to_end(cell) ==
    LET acc == phase_finder(cell, GrowthAcceleration)
        rtd == phase_finder(cell, GrowthRetardation)
    IN  IF acc.raised THEN Raise("ValueError")
        ELSE IF Len(acc.idx) = 0 THEN Num(-1)
        ELSE IF rtd.raised THEN Raise("ValueError")
        ELSE IF Len(rtd.idx) = 0 THEN Num(-1)
        ELSE Num(py_impulse_counter(
                Cell(Slice(cell.v, acc.idx[1], Len(cell.v)))))

py_inner_impulse_counter(cell) ==
    LET acc == phase_finder(cell, GrowthAcceleration)
        rtd == phase_finder(cell, GrowthRetardation)
    IN  IF acc.raised THEN Raise("ValueError")
        ELSE IF Len(acc.idx) = 0 THEN Num(-1)
        ELSE IF rtd.raised THEN Raise("ValueError")
        ELSE IF Len(rtd.idx) = 0 THEN Num(-1)
        ELSE Num(py_impulse_counter(
                Cell(Slice(cell.v, acc.idx[1], rtd.idx[Len(rtd.idx)]))))

np_ma_inner_impulse_counter(cell) ==
    LET c == py_inner_impulse_counter(cell)
    IN  IF IsRaise(c) THEN c ELSE NegativeToNaN(c.n)

(***************************** major impulse *******************************)
\* the sort keys of _py_get_major_impulse_for_plate, one per entry
MajorKeys(v) ==
    [i \in 1..Len(v) |->
        IF v[i].data.isNone THEN MinusInf ELSE DoublingsKey(v[i].data)]

\* impulses[np.argmax(impulses[:, -1])][0]: the position, among the Impulse
\* positions idx, whose sort_order entry is largest (first one on a tie)
ArgMaxImpulse(idx, so) ==
    LET best == CHOOSE a \in 1..Len(idx) :
                    /\ \A b \in 1..Len(idx) : At(so, idx[b]) <= At(so, idx[a])
                    /\ \A b \in 1..(a - 1) : At(so, idx[b]) < At(so, idx[a])
    IN  idx[best]

py_get_major_impulse_for_plate(cell) ==
    IF cell.isNone THEN Num(-1)
    ELSE IF UnpackError(cell.v) = "TypeError" THEN Num(-1)
    ELSE IF UnpackError(cell.v) = "ValueError" THEN Raise("ValueError")
    ELSE LET sort_order == ArgSort(MajorKeys(cell.v))
             idx == SelectIdx(cell.v, Impulse, 1)
             any == \E a \in 1..Len(idx) :
                        idx[a] # 0 \/ At(sort_order, idx[a]) # 0
         IN  IF any THEN Num(ArgMaxImpulse(idx, sort_order)) ELSE Num(-1)

np_ma_get_major_impulse_indices(cell) ==
    LET i == py_get_major_impulse_for_plate(cell)
    IN  IF IsRaise(i) THEN i ELSE NegativeToNaN(i.n)

(***************************** flank asymmetry *****************************)
\* np.arctan2(1, slope), kept symbolic: a finite angle in (0, pi)
Arctan2(slope) == [k |-> "arctan2", n |-> slope, d |-> 1]

\* np.pi - np.abs(arctan2(1, impulse slope) - arctan2(1, flank slope)),
\* kept symbolic: a finite angle in (0, pi]
FlatAngle(impulse_slope, flank_slope) ==
    [k |-> "flat_angle", n |-> impulse_slope, d |-> flank_slope]

IsSymbolicAngle(a) == a.k \in {"arctan2", "flat_angle"}

\* _flank_angle; has_flank is FALSE where the code passes None
flank_angle(has_flank, flank, impulse) ==
    IF ~has_flank THEN Arctan2(impulse.data[LinearModelSlope])
    ELSE IF flank.type = Flat
         THEN IF flank.data.isNone THEN Raise("TypeError")
              ELSE FlatAngle(impulse.data[LinearModelSlope],
                             flank.data[LinearModelSlope])
    ELSE IF is_detected_non_linear(flank.type)
         THEN IF flank.data.isNone THEN Raise("TypeError")
              ELSE Num(flank.data[AsymptoteAngle])
    ELSE PosInf

\* a2 / a1 of two flank angles
AngleRatio(a2, a1) ==
    IF IsRaise(a1) THEN a1
    ELSE IF IsRaise(a2) THEN a2
    ELSE IF IsFloat(a1) /\ IsFloat(a2) THEN Div(a2, a1)
    ELSE IF IsSymbolicAngle(a1) /\ a2.k = "inf" THEN a2
    ELSE IF IsSymbolicAngle(a2) /\ a1.k = "inf" THEN Num(0)
    ELSE [k |-> "ratio", n |-> a2, d |-> a1]

py_get_flanking_angle_relation(cell, major_impulse_index) ==
    IF IsRaise(major_impulse_index) THEN major_impulse_index
    ELSE IF IsNaN(major_impulse_index) THEN PosInf
    ELSE LET v == cell.v
             m == major_impulse_index.n
         IN  IF At(v, m).data.isNone THEN PosInf
             ELSE IF At(v, m).type # Impulse THEN PosInf
             ELSE LET a1 == flank_angle(m > 0, At(v, IF m > 0 THEN m - 1 ELSE m),
                                        At(v, m))
                      a2 == flank_angle(m < Len(v) - 1,
                                        At(v, IF m < Len(v) - 1 THEN m + 1 ELSE m),
                                        At(v, m))
                  IN  AngleRatio(a2, a1)

(***************************** lag *****************************************)
\* (impulse_intercept - flat_intercept) / (flat_slope - impulse_slope)
CrossingTime(impulse_intercept, flat_intercept, flat_slope, impulse_slope) ==
    Div(Sub(impulse_intercept, flat_intercept), Sub(flat_slope, impulse_slope))

\* the lag left as computed
UnmaskedLag(lag) == lag

\* lag[lag < 0] = np.nan
MaskNegativeLag(lag) == IF LtZero(lag) THEN NaN ELSE lag

\* lag[(lag < 0) | (impulse_start < low_point_time)
\*     | (~np.isfinite(low_point_time))] = np.nan
MaskAlternativeLag(lag, impulse_start, low_point_time) ==
    IF LtZero(lag) \/ Lt(impulse_start, low_point_time)
       \/ ~IsFinite(low_point_time)
    THEN NaN ELSE lag

\* the first exception among the stages of one cell, else the value
Staged(stages, value) ==
    IF \E i \in 1..Len(stages) : IsRaise(stages[i])
    THEN stages[CHOOSE i \in 1..Len(stages) :
                    /\ IsRaise(stages[i])
                    /\ \A j \in 1..(i - 1) : ~IsRaise(stages[j])]
    ELSE value

InitialLagCell(cell) ==
    LET flat_slope == filter_plate_custom_filter(
            cell, Flat, LinearModelSlope, 1, "first")
        flat_intercept == filter_plate_custom_filter(
            cell, Flat, LinearModelIntercept, 1, "first")
        impulses_phase == get_phase_id(cell, <<Flat, Impulse>>)
        impulse_slope == filter_plate_on_phase_id(
            cell, impulses_phase, LinearModelSlope)
        impulse_intercept == filter_plate_on_phase_id(
            cell, impulses_phase, LinearModelIntercept)
    IN  Staged(<<flat_slope, flat_intercept, impulses_phase, impulse_slope,
                 impulse_intercept>>,
               MaskNegativeLag(CrossingTime(
                   impulse_intercept, flat_intercept, flat_slope,
                   impulse_slope)))

TimeBeforeMajorGrowthCell(cell) ==
    LET flat_slope == filter_plate_custom_filter(
            cell, Flat, LinearModelSlope, 1, "first")
        flat_intercept == filter_plate_custom_filter(
            cell, Flat, LinearModelIntercept, 1, "first")
        impulses_phase == np_ma_get_major_impulse_indices(cell)
        impulse_slope == filter_plate_on_phase_id(
            cell, impulses_phase, LinearModelSlope)
        impulse_intercept == filter_plate_on_phase_id(
            cell, impulses_phase, LinearModelIntercept)
    IN  Staged(<<flat_slope, flat_intercept, impulses_phase, impulse_slope,
                 impulse_intercept>>,
               MaskNegativeLag(CrossingTime(
                   impulse_intercept, flat_intercept, flat_slope,
                   impulse_slope)))

\* low is the cell's ExperimentLowPoint, when its ExperimentLowPointWhen
InitialLagAlternativeModelCell(cell, low) ==
    LET impulse_slope == filter_plate_custom_filter(
            cell, Impulse, LinearModelSlope, 1, "major")
        impulse_intercept == filter_plate_custom_filter(
            cell, Impulse, LinearModelIntercept, 1, "major")
        impulse_start == filter_plate_custom_filter(
            cell, Impulse, Start, 1, "major")
        flat_slope == Num(0)
        flat_intercept == Num(Log2(low.low))
    IN  Staged(<<impulse_slope, impulse_intercept, impulse_start>>,
               MaskAlternativeLag(
                   CrossingTime(impulse_intercept, flat_intercept, flat_slope,
                                impulse_slope),
                   impulse_start, low.when))

(***************************** extract_phenotypes **************************)
\* the value extract_phenotypes computes for one cell (or the exception the
\* cell's computation raises)
ExtractCell(cell, kind, low) ==
    CASE kind = "MajorImpulseYieldContribution" ->
            filter_plate_custom_filter(
                cell, Impulse, PopulationDoublings, 1, "major")
      [] kind = "FirstMinorImpulseYieldContribution" ->
            filter_plate_custom_filter(
                cell, Impulse, PopulationDoublings, 2, "minor")
      [] kind = "MajorImpulseAveragePopulationDoublingTime" ->
            filter_plate_custom_filter(
                cell, Impulse, PopulationDoublingTime, 1, "major")
      [] kind = "FirstMinorImpulseAveragePopulationDoublingTime" ->
            filter_plate_custom_filter(
                cell, Impulse, PopulationDoublingTime, 2, "minor")
      [] kind = "InitialLag" -> InitialLagCell(cell)
      [] kind = "TimeBeforeMajorGrowth" -> TimeBeforeMajorGrowthCell(cell)
      [] kind = "InitialLagAlternativeModel" ->
            InitialLagAlternativeModelCell(cell, low)
      [] kind = "InitialAccelerationAsymptoteAngle" ->
            filter_plate_custom_filter(
                cell, GrowthAcceleration, AsymptoteAngle, 1, "first")
      [] kind = "FinalRetardationAsymptoteAngle" ->
            filter_plate_custom_filter(
                cell, GrowthRetardation, AsymptoteAngle, 1, "last")
      [] kind = "InitialAccelerationAsymptoteIntersect" ->
            filter_plate_custom_filter(
                cell, GrowthAcceleration, AsymptoteIntersection, 1, "first")
      [] kind = "FinalRetardationAsymptoteIntersect" ->
            filter_plate_custom_filter(
                cell, GrowthRetardation, AsymptoteIntersection, 1, "last")
      [] kind = "Modalities" -> np_ma_impulse_counter(cell)
      [] kind = "ModalitiesAlternativeModel" ->
            np_ma_inner_impulse_counter(cell)
      [] kind = "Collapses" -> np_ma_collapse_counter(cell)
      [] kind = "MajorImpulseFlankAsymmetry" ->
            py_get_flanking_angle_relation(
                cell, np_ma_get_major_impulse_indices(cell))
      [] OTHER -> NaN

\* extract_phenotypes(plate, meta_phenotype, phenotypes): the array of the
\* cells' values, or the exception that leaves the call
extract_phenotypes(pl, kind, lows) ==
    LET value == [c \in 1..Len(pl) |-> ExtractCell(pl[c], kind, lows[c])]
    IN  IF \E c \in 1..Len(pl) : IsRaise(value[c])
        THEN [status |-> "raised", value |-> <<>>]
        ELSE [status |-> "returned", value |-> value]

(***************************** inputs **************************************)
\* The phenotypes dict of a segment at position pos of a vector.  Segments
\* are contiguous: each lasts SegmentDuration time units.
SegmentDuration == 2

DoublingTimeOf(slope) == IF slope > 0 THEN 6 \div slope ELSE 0

Data(pos, doublings, slope, intercept, angle) ==
    [isNone |-> FALSE, PopulationDoublings |-> doublings,
     PopulationDoublingTime |-> DoublingTimeOf(slope),
     LinearModelSlope |-> slope, LinearModelIntercept |-> intercept,
     AsymptoteAngle |-> angle,
     AsymptoteIntersection |-> SegmentDuration * pos + 1,
     Start |-> SegmentDuration * pos, Duration |-> SegmentDuration]

\* a drawn segment: its type and the free values of its phenotypes
Choice(t, doublings, slope, intercept, angle) ==
    [type |-> t, doublings |-> doublings, slope |-> slope,
     intercept |-> intercept, angle |-> angle, arity |-> 2]

\* the phase vector of a sequence of drawn segments; an Undetermined segment
\* carries no phenotypes
VectorOf(choices) ==
    [i \in 1..Len(choices) |->
        [arity |-> choices[i].arity, type |-> choices[i].type,
         data |-> IF choices[i].type = Undetermined THEN NoneData
                  ELSE Data(i - 1, choices[i].doublings, choices[i].slope,
                            choices[i].intercept, choices[i].angle)]]

CellsUpTo(choices, maxlen) ==
    UNION {{Cell(VectorOf(c)) : c \in [1..len -> choices]} : len \in 1..maxlen}

CellsOfLen(choices, len) == {Cell(VectorOf(c)) : c \in [1..len -> choices]}

\* the plates of at least two cells holding at most budget segments in all
RECURSIVE PlatesWithin(_, _)
PlatesWithin(choices, budget) ==
    {<<>>} \cup
    UNION {{<<c>> \o p : c \in CellsOfLen(choices, len),
                         p \in PlatesWithin(choices, budget - len)} :
           len \in 1..budget}

Plates(choices, budget) == {p \in PlatesWithin(choices, budget) : Len(p) >= 2}

\* ExperimentLowPoint and ExperimentLowPointWhen of a cell
NoLowPoint == [low |-> 1, when |-> Num(0)]

LowPoints ==
    {[low |-> l, when |-> w] : l \in {1, 4}, w \in {Num(0), Num(3), PosInf, NaN}}

NoRet == [status |-> "none", value |-> <<>>]

(***************************** operations **********************************)
\* extract_phenotypes called for one of the kinds, with low points drawn
\* from lowpoints as the phenotypes argument (read by one kind only)
ExtractPhenotypes(kinds, lowpoints) ==
    \E kind \in kinds :
    \E lows \in [1..Len(plate) ->
                    IF kind = "InitialLagAlternativeModel"
                    THEN lowpoints ELSE {NoLowPoint}] :
        /\ meta_phenotype' = kind
        /\ phenotypes' = lows
        /\ ret' = extract_phenotypes(plate, kind, lows)
        /\ UNCHANGED plate
        /\ UNCHANGED align_vars
        /\ UNCHANGED seg_vars
    /\ UNCHANGED other_vars
        /\ UNCHANGED other_vars

\* Python's None where a slot position is expected
NoneId == -1

NoAligned == [status |-> "none", tensor |-> <<>>, descriptor |-> <<>>]

\* no step applied on its own yet; count is the number of steps applied
NoCall ==
    [op |-> "none", count |-> 0, before |-> <<>>, id_tup |-> <<0, 0>>,
     cur |-> NoneId, prev |-> NoneId, side |-> "Left", exc |-> "None"]

\* no alignment asked for: every curve passes QC, nothing is running
AlignIdle ==
    /\ filt = [c \in 1..Len(plate) |-> FALSE]
    /\ end_time = Num(0)
    /\ al_pc = "idle"
    /\ al_exc = "None"
    /\ plate_data = <<>>
    /\ coords = <<>>
    /\ major_idx = <<>>
    /\ phases = <<>>
    /\ major_phase_id = 0
    /\ n = 0
    /\ id_curve = 0
    /\ id_phase = 0
    /\ prev_phase = NoneId
    /\ side = "Left"
    /\ first_run = TRUE
    /\ aligned = NoAligned
    /\ call = NoCall

\* no curve given to the segmentation
NoCurve == [samples |-> <<>>, minlen |-> 0]
NoSegments == [status |-> "none", v |-> <<>>]

SegIdle == curve = NoCurve /\ segments = NoSegments

\* Python's None where a Server, a job id or a scanner owner is expected
NoServer == 0
NoJobId == 0
NoOwner == 0

NoRpc ==
    [method |-> "none", user |-> "none", wait_for_jobs_to_stop |-> FALSE,
     ret |-> "None"]

\* no server made, nothing queued, no scanner known
SrvIdle ==
    /\ som_server = NoServer
    /\ servers = <<>>
    /\ loops = <<>>
    /\ queue = <<>>
    /\ next_priority = "Scan"
    /\ jobs = <<>>
    /\ forcingStop = FALSE
    /\ scanners = <<>>
    /\ connected = FALSE
    /\ next_id = 1
    /\ rpc_server = "none"
    /\ restart = "idle"
    /\ rpc = NoRpc

\* no state object made
NoState == [made |-> FALSE]

StIdle == state = NoState /\ wiped = "none"

OtherIdle == SrvIdle /\ StIdle

InitWith(plates) ==
    /\ plate \in plates
    /\ phenotypes = [c \in 1..Len(plate) |-> NoLowPoint]
    /\ meta_phenotype = "none"
    /\ ret = NoRet
    /\ AlignIdle
    /\ SegIdle
    /\ OtherIdle

(***************************** yield ranking *******************************)
RankChoices ==
    {Choice(Impulse, d, 1, 0, 0) : d \in {-1, 0, 1, 2}}
    \cup {Choice(GrowthAcceleration, d, 0, 0, 1) : d \in {0, 1}}
    \cup {Choice(GrowthRetardation, 0, 0, 0, 2)}
    \cup {Choice(Flat, 3, 0, 0, 0)}
    \cup {Choice(Undetermined, 0, 0, 0, 0)}

RankKinds ==
    {"MajorImpulseYieldContribution", "FirstMinorImpulseYieldContribution",
     "MajorImpulseAveragePopulationDoublingTime",
     "FirstMinorImpulseAveragePopulationDoublingTime",
     "MajorImpulseFlankAsymmetry"}

InitRank == InitWith({<<c>> : c \in CellsUpTo(RankChoices, MaxLen)})
NextRank == ExtractPhenotypes(RankKinds, LowPoints)
SpecRank == InitRank /\ [][NextRank]_vars

\* the Python positions of the Impulse segments of a well-formed vector
ImpulsePositions(v) == {i \in 0..(Len(v) - 1) : At(v, i).type = Impulse}

DoublingsAt(v, i) == At(v, i).data[PopulationDoublings]

\* position i holds an Impulse no other Impulse has more doublings than
IsHighestImpulse(v, i) ==
    /\ i \in ImpulsePositions(v)
    /\ \A j \in ImpulsePositions(v) : DoublingsAt(v, j) <= DoublingsAt(v, i)

\* position i holds an Impulse that exactly one other Impulse ranks above
IsSecondHighestImpulse(v, i) ==
    /\ i \in ImpulsePositions(v)
    /\ \E j \in ImpulsePositions(v) \ {i} :
        /\ DoublingsAt(v, j) >= DoublingsAt(v, i)
        /\ \A l \in ImpulsePositions(v) \ {i, j} :
            DoublingsAt(v, l) <= DoublingsAt(v, i)

\* every Impulse of the vector has positive doublings (the usual case: an
\* Impulse is a phase of growth)
ImpulsesGrow(v) == \A i \in ImpulsePositions(v) : DoublingsAt(v, i) > 0

\* C1: whenever the major impulse index has been computed for a plate (the
\* flank asymmetry was extracted), for every cell with at least one Impulse
\* _py_get_major_impulse_for_plate gives the position of an Impulse with the
\* highest PopulationDoublings among the cell's Impulses, and it gives -1
\* only for a cell without Impulse.  Stated for the cells whose Impulses all
\* have positive doublings.
C1_MajorIndexIsHighestImpulse ==
    meta_phenotype = "MajorImpulseFlankAsymmetry" =>
        \A c \in 1..Len(plate) :
            ImpulsesGrow(plate[c].v) =>
                LET i == py_get_major_impulse_for_plate(plate[c])
                IN  IF ImpulsePositions(plate[c].v) # {}
                    THEN IsNum(i) /\ IsHighestImpulse(plate[c].v, i.n)
                    ELSE i = Num(-1)

\* C2: MajorImpulseYieldContribution is the PopulationDoublings of the
\* Impulse with the highest doublings and FirstMinorImpulseYieldContribution
\* that of the Impulse with the second-highest, for any doublings values;
\* NaN with fewer than 1 (respectively 2) Impulses.
C2_YieldIsHighestAndSecondHighest ==
    \A c \in 1..Len(plate) :
        LET v == plate[c].v
            count == Cardinality(ImpulsePositions(v))
        IN  /\ meta_phenotype = "MajorImpulseYieldContribution" =>
                /\ ret.status = "returned"
                /\ IF count >= 1
                   THEN \E i \in ImpulsePositions(v) :
                            /\ IsHighestImpulse(v, i)
                            /\ ret.value[c] = Num(DoublingsAt(v, i))
                   ELSE ret.value[c] = NaN
            /\ meta_phenotype = "FirstMinorImpulseYieldContribution" =>
                /\ ret.status = "returned"
                /\ IF count >= 2
                   THEN \E i \in ImpulsePositions(v) :
                            /\ IsSecondHighestImpulse(v, i)
                            /\ ret.value[c] = Num(DoublingsAt(v, i))
                   ELSE ret.value[c] = NaN

\* position m holds the one Impulse with the highest doublings, between two
\* non-linear segments
IsFlankedMajor(v, m) ==
    /\ IsHighestImpulse(v, m)
    /\ \A j \in ImpulsePositions(v) \ {m} : DoublingsAt(v, j) < DoublingsAt(v, m)
    /\ m > 0
    /\ m < Len(v) - 1
    /\ is_detected_non_linear(At(v, m - 1).type)
    /\ is_detected_non_linear(At(v, m + 1).type)

\* C3: for a cell whose major impulse lies between a non-linear segment with
\* AsymptoteAngle a (before) and one with AsymptoteAngle b (after),
\* MajorImpulseFlankAsymmetry is b / a, whatever else the vector holds.
\* Stated for the cells whose Impulses all have positive doublings.
C3_FlankAsymmetryIsRightOverLeft ==
    meta_phenotype = "MajorImpulseFlankAsymmetry" =>
        \A c \in 1..Len(plate) :
            \A m \in 0..(Len(plate[c].v) - 1) :
                IsFlankedMajor(plate[c].v, m) /\ ImpulsesGrow(plate[c].v) =>
                    /\ ret.status = "returned"
                    /\ IsFloat(ret.value[c])
                    /\ ret.value[c] =
                        Div(Num(At(plate[c].v, m + 1).data[AsymptoteAngle]),
                            Num(At(plate[c].v, m - 1).data[AsymptoteAngle]))

(***************************** lag *****************************************)
LagChoices ==
    {Choice(Flat, 0, sl, ic, 0) : sl \in {0, 1}, ic \in {0, 1}}
    \cup {Choice(Impulse, d, sl, ic, 0) :
            d \in {1, 2}, sl \in {0, 1}, ic \in {-2, 1}}
    \cup {Choice(GrowthAcceleration, 0, 0, 0, 1)}

LagKinds == {"InitialLag", "TimeBeforeMajorGrowth"}

InitLag == InitWith({<<c>> : c \in CellsUpTo(LagChoices, MaxLagLen)})
NextLag == ExtractPhenotypes(LagKinds, LowPoints)
SpecLag == InitLag /\ [][NextLag]_vars

PositionsOf(v, t) == {i \in 0..(Len(v) - 1) : At(v, i).type = t}

Min(S) == CHOOSE x \in S : \A y \in S : x <= y

\* the crossing time of the lines of the segments at positions f and i,
\* negative results made NaN
LagBetween(v, f, i) ==
    LET lag == CrossingTime(Num(At(v, i).data[LinearModelIntercept]),
                            Num(At(v, f).data[LinearModelIntercept]),
                            Num(At(v, f).data[LinearModelSlope]),
                            Num(At(v, i).data[LinearModelSlope]))
    IN  IF LtZero(lag) THEN NaN ELSE lag

\* the Impulses lying anywhere after the first Flat
ImpulsesAfterFirstFlat(v) ==
    IF PositionsOf(v, Flat) = {} THEN {}
    ELSE {i \in PositionsOf(v, Impulse) : i > Min(PositionsOf(v, Flat))}

\* the Impulses lying directly after a Flat
ImpulsesDirectlyAfterFlat(v) ==
    {i \in PositionsOf(v, Impulse) : i > 0 /\ At(v, i - 1).type = Flat}

\* C4 (as amended): InitialLag crosses the first Flat's line with the line
\* of the first Impulse found anywhere after the first Flat, adjacent to a
\* Flat or not; without such an Impulse the lag is NaN.
C4_LagUsesFirstImpulseAfterFirstFlat ==
    meta_phenotype = "InitialLag" =>
        /\ ret.status = "returned"
        /\ \A c \in 1..Len(plate) :
            LET v == plate[c].v
            IN  ret.value[c] =
                    IF ImpulsesAfterFirstFlat(v) = {} THEN NaN
                    ELSE LagBetween(v, Min(PositionsOf(v, Flat)),
                                    Min(ImpulsesAfterFirstFlat(v)))

\* C4: a lag was computed from an Impulse that other segments separate from
\* the Flat before it
C4_Witness ==
    /\ meta_phenotype = "InitialLag"
    /\ ret.status = "returned"
    /\ \E c \in 1..Len(plate) :
        /\ ImpulsesDirectlyAfterFlat(plate[c].v) = {}
        /\ ImpulsesAfterFirstFlat(plate[c].v) # {}
        /\ IsNum(ret.value[c])

\* C4 (as claimed): InitialLag crosses the first Flat's line with the line
\* of the Impulse at the first place where a Flat is directly followed by an
\* Impulse; an Impulse separated from the Flat is not used.
C4_LagUsesImpulseDirectlyAfterFlat ==
    meta_phenotype = "InitialLag" =>
        /\ ret.status = "returned"
        /\ \A c \in 1..Len(plate) :
            LET v == plate[c].v
            IN  ret.value[c] =
                    IF ImpulsesDirectlyAfterFlat(v) = {} THEN NaN
                    ELSE LagBetween(v, Min(PositionsOf(v, Flat)),
                                    Min(ImpulsesDirectlyAfterFlat(v)))

\* C5: every value returned for InitialLag and TimeBeforeMajorGrowth is NaN
\* or at least 0.
C5_LagIsNaNOrNonNegative ==
    meta_phenotype \in {"InitialLag", "TimeBeforeMajorGrowth"} =>
        /\ ret.status = "returned"
        /\ \A c \in 1..Len(plate) : IsNaN(ret.value[c]) \/ GeZero(ret.value[c])

\* C5: a cell whose two lines cross at a negative time got NaN
C5_Witness ==
    /\ meta_phenotype \in {"InitialLag", "TimeBeforeMajorGrowth"}
    /\ ret.status = "returned"
    /\ \E c \in 1..Len(plate) :
        LET v == plate[c].v
        IN  /\ PositionsOf(v, Flat) # {}
            /\ \E i \in PositionsOf(v, Impulse) :
                /\ Cardinality(PositionsOf(v, Impulse)) = 1
                /\ i > Min(PositionsOf(v, Flat))
                /\ LtZero(CrossingTime(
                        Num(At(v, i).data[LinearModelIntercept]),
                        Num(At(v, Min(PositionsOf(v, Flat)))
                                .data[LinearModelIntercept]),
                        Num(At(v, Min(PositionsOf(v, Flat)))
                                .data[LinearModelSlope]),
                        Num(At(v, i).data[LinearModelSlope])))
            /\ IsNaN(ret.value[c])

(***************************** low-point lag *******************************)
AltChoices ==
    {Choice(Impulse, d, sl, ic, 0) :
        d \in {-1, 0, 1}, sl \in {1, 2}, ic \in {-2, 1}}
    \cup {Choice(Flat, 0, 0, 1, 0)}

AltKinds == {"InitialLagAlternativeModel"}

InitAlt == InitWith({<<c>> : c \in CellsUpTo(AltChoices, MaxAltLen)})
NextAlt == ExtractPhenotypes(AltKinds, LowPoints)
SpecAlt == InitAlt /\ [][NextAlt]_vars

\* the low-point lag of the Impulse at position i of v
AlternativeLagOf(v, i, low) ==
    LET lag == Div(Sub(Num(At(v, i).data[LinearModelIntercept]),
                       Num(Log2(low.low))),
                   Sub(Num(0), Num(At(v, i).data[LinearModelSlope])))
    IN  IF \/ LtZero(lag)
           \/ Lt(Num(At(v, i).data[Start]), low.when)
           \/ ~IsFinite(low.when)
        THEN NaN ELSE lag

\* C6: InitialLagAlternativeModel is NaN when the lag is negative, the major
\* impulse starts before the low point or the low-point time is not finite,
\* and otherwise (impulse_intercept - log2(low_point)) / (0 - impulse_slope)
\* of the cell's major impulse, the Impulse with the highest doublings.
C6_AlternativeLagOfMajorImpulse ==
    meta_phenotype = "InitialLagAlternativeModel" =>
        /\ ret.status = "returned"
        /\ \A c \in 1..Len(plate) :
            LET v == plate[c].v
            IN  IF ImpulsePositions(v) = {} THEN ret.value[c] = NaN
                ELSE \E i \in ImpulsePositions(v) :
                        /\ IsHighestImpulse(v, i)
                        /\ ret.value[c] = AlternativeLagOf(v, i, phenotypes[c])

(***************************** counting ************************************)
CountChoices == {Choice(t, 1, 1, 0, 1) : t \in CurvePhases}

CountKinds == {"Modalities", "ModalitiesAlternativeModel", "Collapses"}

InitCount == InitWith({<<c>> : c \in CellsUpTo(CountChoices, MaxCountLen)})
NextCount == ExtractPhenotypes(CountKinds, LowPoints)
SpecCount == InitCount /\ [][NextCount]_vars

Max(S) == CHOOSE x \in S : \A y \in S : y <= x

\* the Impulses strictly between the first Acceleration and the last
\* Retardation
InnerImpulses(v) ==
    {i \in PositionsOf(v, Impulse) :
        /\ i > Min(PositionsOf(v, GrowthAcceleration))
        /\ i < Max(PositionsOf(v, GrowthRetardation))}

\* C7: ModalitiesAlternativeModel is the number of Impulses strictly between
\* the first Acceleration and the last Retardation (0 when that Retardation
\* does not come after that Acceleration), and NaN when the vector has no
\* Acceleration or no Retardation.
C7_InnerImpulseCount ==
    meta_phenotype = "ModalitiesAlternativeModel" =>
        /\ ret.status = "returned"
        /\ \A c \in 1..Len(plate) :
            LET v == plate[c].v
            IN  ret.value[c] =
                    IF \/ PositionsOf(v, GrowthAcceleration) = {}
                       \/ PositionsOf(v, GrowthRetardation) = {}
                    THEN NaN
                    ELSE Num(Cardinality(InnerImpulses(v)))

\* C7: an Impulse inside the arc was counted while an Impulse outside of it
\* was not
C7_Witness ==
    /\ meta_phenotype = "ModalitiesAlternativeModel"
    /\ ret.status = "returned"
    /\ \E c \in 1..Len(plate) :
        /\ ret.value[c] = Num(1)
        /\ Cardinality(PositionsOf(plate[c].v, Impulse)) = 2

(***************************** plates of several cells *********************)
PlateChoices ==
    {Choice(Flat, 0, 0, 1, 0), Choice(GrowthAcceleration, 0, 0, 0, 1),
     Choice(Impulse, 2, 1, -2, 0), Choice(GrowthRetardation, 0, 0, 0, 2)}

InitPlate == InitWith(Plates(PlateChoices, MaxPlateSegments))
NextPlate == ExtractPhenotypes(CurvePhaseMetaPhenotypes, {NoLowPoint})
SpecPlate == InitPlate /\ [][NextPlate]_vars

\* the phase types a kind cannot do without
Required(kind) ==
    CASE kind \in {"MajorImpulseYieldContribution",
                   "FirstMinorImpulseYieldContribution",
                   "MajorImpulseAveragePopulationDoublingTime",
                   "FirstMinorImpulseAveragePopulationDoublingTime",
                   "MajorImpulseFlankAsymmetry",
                   "InitialLagAlternativeModel"} -> {{Impulse}}
      [] kind = "TimeBeforeMajorGrowth" -> {{Impulse}, {Flat}}
      [] kind = "InitialLag" -> {{Flat}}
      [] kind \in {"InitialAccelerationAsymptoteAngle",
                   "InitialAccelerationAsymptoteIntersect"} ->
            {{GrowthAcceleration}}
      [] kind \in {"FinalRetardationAsymptoteAngle",
                   "FinalRetardationAsymptoteIntersect"} ->
            {{GrowthRetardation}}
      [] OTHER -> {}

\* the vector lacks a segment the kind requires
Lacks(v, kind) ==
    \E need \in Required(kind) : \A t \in need : PositionsOf(v, t) = {}

\* C8 (as amended): a cell whose vector lacks the segment a kind requires
\* gets NaN for that kind, except for MajorImpulseFlankAsymmetry, where a
\* cell without Impulse gets +inf; the call returns the whole plate.
C8_MissingSegmentGivesNaNOrInf ==
    meta_phenotype \in CurvePhaseMetaPhenotypes =>
        /\ ret.status = "returned"
        /\ Len(ret.value) = Len(plate)
        /\ \A c \in 1..Len(plate) :
            Lacks(plate[c].v, meta_phenotype) =>
                ret.value[c] =
                    IF meta_phenotype = "MajorImpulseFlankAsymmetry"
                    THEN PosInf ELSE NaN

\* C8: a plate where one cell lacked the required segment and another cell
\* got a number
C8_Witness ==
    /\ meta_phenotype \in CurvePhaseMetaPhenotypes
    /\ ret.status = "returned"
    /\ \E c, e \in 1..Len(plate) :
        /\ Lacks(plate[c].v, meta_phenotype)
        /\ ~Lacks(plate[e].v, meta_phenotype)
        /\ IsNum(ret.value[e])

\* C8 (as claimed): a cell whose vector lacks the segment a kind requires
\* gets NaN, for every kind.
C8_MissingSegmentGivesNaN ==
    meta_phenotype \in CurvePhaseMetaPhenotypes =>
        /\ ret.status = "returned"
        /\ \A c \in 1..Len(plate) :
            Lacks(plate[c].v, meta_phenotype) => ret.value[c] = NaN

(***************************** malformed cells *****************************)
\* an entry that is no (phase, phenotypes) pair: None (arity 0), a 1-tuple
\* or a 3-tuple
BadEntry(t, arity) == [Choice(t, 1, 1, 0, 1) EXCEPT !.arity = arity]

MalformedChoices ==
    {Choice(t, 1, 1, 0, 1) : t \in {Flat, Impulse}}
    \cup {BadEntry(t, a) : t \in {Flat, Impulse}, a \in {1, 3}}
    \cup {BadEntry(Undetermined, 0)}

MalformedCells == {NoneCell} \cup CellsUpTo(MalformedChoices, MaxMalformedLen)

InitMalformed == InitWith({<<a, b>> : a \in MalformedCells, b \in MalformedCells})
NextMalformed == ExtractPhenotypes(CurvePhaseMetaPhenotypes, {NoLowPoint})
SpecMalformed == InitMalformed /\ [][NextMalformed]_vars

IsMalformed(cell) ==
    cell.isNone \/ \E i \in 1..Len(cell.v) : cell.v[i].arity # 2

\* C9: a malformed cell (None, or holding an entry that is no pair) yields
\* NaN for every kind, and no exception leaves extract_phenotypes.
C9_MalformedCellGivesNaN ==
    meta_phenotype \in CurvePhaseMetaPhenotypes =>
        /\ ret.status = "returned"
        /\ \A c \in 1..Len(plate) :
            IsMalformed(plate[c]) => ret.value[c] = NaN

(***************************** phase alignment *****************************)
\* Only curves on which _py_get_major_impulse_for_plate returned a position
\* are aligned, so every entry of an aligned vector is a (type, phenotypes)
\* pair.  A slot position is a Python position in the list phases.

\* a + b and a * b on floats
Add(a, b) == Sub(a, Neg(b))

Mul(a, b) ==
    CASE a.k = "nan" \/ b.k = "nan" -> NaN
      [] a.k = "inf" /\ b.k = "inf" -> [a EXCEPT !.n = a.n * b.n]
      [] a.k = "inf" ->
            IF b.n = 0 THEN NaN ELSE IF b.n < 0 THEN Neg(a) ELSE a
      [] b.k = "inf" ->
            IF a.n = 0 THEN NaN ELSE IF a.n < 0 THEN Neg(b) ELSE b
      [] OTHER -> Rat(a.n * b.n, a.d * b.d)

\* a <= b and a > b on floats
Le(a, b) == a.k # "nan" /\ b.k # "nan" /\ ~Lt(b, a)
Gt(a, b) == Lt(b, a)

\* abs(v) and min((a, b)) on floats
FAbs(a) == IF LtZero(a) THEN Neg(a) ELSE a
FMin(a, b) == IF Lt(b, a) THEN b ELSE a

Half == Rat(1, 2)

\* the weight add_to_phase gives to a slot's present anchor
w == Rat(9, 10)

\* the passes of the refinement loop
Passes == 10

\* a phase slot; hasAnchor is PhaseData.Anchor being a key of the dict
NewPhase(t) == [Type |-> t, Members |-> {}, hasAnchor |-> FALSE, Anchor |-> NaN]

\* what a step on the slots gives: the exception that left it ("None" if
\* none) and the slots as it left them
Out(exc, ps) == [exc |-> exc, phases |-> ps]

\* start: the segment's start relative to the major impulse time, in [-1, 0)
\* before it and in [0, 1] after it
RelativeStart(data, et, mpt) ==
    IF Lt(Num(data[Start]), mpt)
    THEN Sub(Div(Num(data[Start]), mpt), Num(1))
    ELSE Div(Sub(Num(data[Start]), mpt), Sub(et, mpt))

\* share * Duration on the scale of the side start lies on
RelativeDuration(data, share, start, et, mpt) ==
    IF LtZero(start)
    THEN Div(Mul(share, Num(data[Duration])), mpt)
    ELSE Div(Mul(share, Num(data[Duration])), Sub(et, mpt))

\* anchor: the relative time of the segment's middle
AnchorOf(data, et, mpt) ==
    LET start == RelativeStart(data, et, mpt)
    IN  Add(start, RelativeDuration(data, Half, start, et, mpt))

\* add_to_phase on the slot at position pos
add_to_phase(ps, phase_phenotypes, phase_ref, pos, et, mpt) ==
    IF pos >= Len(ps) THEN Out("IndexError", ps)
    ELSE IF phase_phenotypes.data.isNone THEN Out("TypeError", ps)
    ELSE LET anchor == AnchorOf(phase_phenotypes.data, et, mpt)
             phase == At(ps, pos)
             added ==
                [phase EXCEPT
                    !.Anchor = IF phase.hasAnchor
                               THEN Add(Mul(w, @), Mul(Sub(Num(1), w), anchor))
                               ELSE anchor,
                    !.hasAnchor = TRUE,
                    !.Members = @ \cup {phase_ref}]
         IN  Out("None", [ps EXCEPT ![pos + 1] = added])

\* append_phases: a new last slot for a segment that is not Undetermined
append_phases(ps, data, phase_ref, et, mpt) ==
    IF data.type = Undetermined THEN Out("None", ps)
    ELSE add_to_phase(Append(ps, NewPhase(data.type)), data, phase_ref,
                      Len(ps), et, mpt)

get_energy(phase, phase_phenotypes, et, mpt) ==
    IF phase.Type # phase_phenotypes.type THEN PosInf
    ELSE IF phase_phenotypes.data.isNone THEN Raise("TypeError")
    ELSE LET start == RelativeStart(phase_phenotypes.data, et, mpt)
             end == Add(start, RelativeDuration(phase_phenotypes.data, Num(1),
                                                start, et, mpt))
         IN  IF ~phase.hasAnchor THEN Num(0)
             ELSE IF Le(start, phase.Anchor) /\ Le(phase.Anchor, end)
                  THEN Num(0)
             ELSE Div(FMin(FAbs(Sub(phase.Anchor, end)),
                           FAbs(Sub(phase.Anchor, start))),
                      Sub(end, start))

\* current_phase: the first slot holding phase_ref, NoneId for None
current_phase(ps, phase_ref) ==
    IF \E i \in 1..Len(ps) : phase_ref \in ps[i].Members
    THEN Min({i \in 1..Len(ps) : phase_ref \in ps[i].Members}) - 1
    ELSE NoneId

\* list(range(a, b))
Range(a, b) == [i \in 1..(IF b > a THEN b - a ELSE 0) |-> a + i - 1]

get_possible(ps, prev, sd, mid) ==
    LET low == IF prev = NoneId THEN 0 ELSE prev
    IN  IF sd = "Both" THEN Range(low, Len(ps))
        ELSE IF sd = "Left" THEN Range(low, mid)
        ELSE Range(0, Max({mid + 1, low, Len(ps)}))

\* what a search for a slot gives: the exception that left it, and the slot
\* position found (NoneId for None)
Found(exc, id) == [exc |-> exc, id |-> id]

\* the loop of optimal_phase over possible, from its i-th element on
RECURSIVE OptimalScan(_, _, _, _, _, _, _, _)
OptimalScan(ps, phase_phenotypes, possible, i, min_e, best_id, et, mpt) ==
    IF i > Len(possible) THEN Found("None", best_id)
    ELSE IF possible[i] >= Len(ps) THEN Found("IndexError", best_id)
    ELSE LET energy == get_energy(At(ps, possible[i]), phase_phenotypes,
                                  et, mpt)
         IN  IF IsRaise(energy) THEN Found(energy.k, best_id)
             ELSE IF Lt(energy, Num(1)) /\ Lt(energy, min_e)
                  THEN OptimalScan(ps, phase_phenotypes, possible, i + 1,
                                   energy, possible[i], et, mpt)
             ELSE OptimalScan(ps, phase_phenotypes, possible, i + 1,
                              min_e, best_id, et, mpt)

\* optimal_phase: phase_ref is a (curve, segment) pair, never empty, so the
\* search starts from the slot at position phase_ref[1]
optimal_phase(ps, phase_phenotypes, phase_ref, prev, sd, et, mpt, mid) ==
    IF phase_ref[2] >= Len(ps) THEN Found("None", NoneId)
    ELSE LET min_e == get_energy(At(ps, phase_ref[2]), phase_phenotypes,
                                 et, mpt)
         IN  IF IsRaise(min_e) THEN Found(min_e.k, NoneId)
             ELSE OptimalScan(ps, phase_phenotypes,
                              get_possible(ps, prev, sd, mid), 1, min_e,
                              phase_ref[2], et, mpt)

\* the loop of insert_phase over possible: the first slot whose anchor lies
\* after anchor, the last possible slot if there is none
RECURSIVE InsertScan(_, _, _, _)
InsertScan(ps, possible, i, anchor) ==
    IF possible[i] >= Len(ps) THEN Found("IndexError", possible[i])
    ELSE IF Gt(At(ps, possible[i]).Anchor, anchor) \/ i = Len(possible)
         THEN Found("None", possible[i])
    ELSE InsertScan(ps, possible, i + 1, anchor)

\* list.insert
InsertAt(ps, pos, phase) ==
    SubSeq(ps, 1, pos) \o <<phase>> \o SubSeq(ps, pos + 1, Len(ps))

insert_phase(ps, phase_phenotypes, id_tup, prev, sd, et, mpt, mid) ==
    LET possible == get_possible(ps, prev, sd, mid)
    IN  IF phase_phenotypes.data.isNone THEN Out("TypeError", ps)
        ELSE IF Len(possible) = 0
             THEN append_phases(ps, phase_phenotypes, id_tup, et, mpt)
        ELSE LET at == InsertScan(ps, possible, 1,
                                  AnchorOf(phase_phenotypes.data, et, mpt))
             IN  IF at.exc # "None" THEN Out(at.exc, ps)
                 ELSE add_to_phase(
                        InsertAt(ps, at.id, NewPhase(phase_phenotypes.type)),
                        phase_phenotypes, id_tup, at.id, et, mpt)

\* the slots left in the order the pass built them
LeftUnsorted(ps) == ps

\* sorted(phases, key=Anchor): the stable ascending order of the slots
SortedByAnchor(ps) ==
    LET rank(i) ==
            Cardinality({j \in 1..Len(ps) :
                \/ Lt(ps[j].Anchor, ps[i].Anchor)
                \/ ~Lt(ps[i].Anchor, ps[j].Anchor) /\ j < i})
    IN  [k \in 1..Len(ps) |->
            ps[CHOOSE i \in 1..Len(ps) : rank(i) = k - 1]]

\* the slots, in order, that hold more than least members
RECURSIVE KeepLarge(_, _)
KeepLarge(ps, least) ==
    IF ps = <<>> THEN <<>>
    ELSE (IF Cardinality(Head(ps).Members) > least THEN <<Head(ps)>>
          ELSE <<>>) \o KeepLarge(Tail(ps), least)

\* the end of a pass taking the pass after the last one for the last one
PassEndLastPassMissed(ps, pass, size) ==
    KeepLarge(SortedByAnchor(ps),
              IF pass = Passes THEN 0 ELSE (5 * size) \div 100)

\* the end of pass pass: int(0.05 * coords.size) members are too few, none
\* is too few after the last pass
PassEnd(ps, pass, size) ==
    KeepLarge(SortedByAnchor(ps),
              IF pass = Passes - 1 THEN 0 ELSE (5 * size) \div 100)

\* _ravel_phase_phenotypes writing the curve with index id_curve at plate
\* position id_curve instead of at its own position
ravel_by_curve_index(ps, ravel_plate, cs, shape) ==
    LET member(cv, k) ==
            {sg \in 0..(Len(ravel_plate[cv]) - 1) :
                <<cv - 1, sg>> \in ps[k].Members}
        block(c, k) ==
            IF c <= Len(ravel_plate) /\ member(c, k) # {}
            THEN [nan |-> FALSE,
                  data |-> At(ravel_plate[c], Max(member(c, k))).data]
            ELSE [nan |-> TRUE, data |-> NoneData]
    IN  [status |-> "returned",
         tensor |-> [c \in 1..shape |-> [k \in 1..Len(ps) |-> block(c, k)]],
         descriptor |-> [k \in 1..Len(ps) |-> ps[k].Type]]

\* _ravel_phase_phenotypes: per plate position one block per slot, holding
\* the phenotypes of the curve's member of the slot (the last one written),
\* NaN without one; the descriptor lists the slots' types
ravel_phase_phenotypes(ps, ravel_plate, cs, shape) ==
    LET member(cv, k) ==
            {sg \in 0..(Len(ravel_plate[cv]) - 1) :
                <<cv - 1, sg>> \in ps[k].Members}
        block(c, k) ==
            IF \E cv \in 1..Len(cs) : cs[cv] = c /\ member(cv, k) # {}
            THEN LET cv == CHOOSE cv \in 1..Len(cs) : cs[cv] = c
                 IN  [nan |-> FALSE,
                      data |-> At(ravel_plate[cv], Max(member(cv, k))).data]
            ELSE [nan |-> TRUE, data |-> NoneData]
    IN  [status |-> "returned",
         tensor |-> [c \in 1..shape |-> [k \in 1..Len(ps) |-> block(c, k)]],
         descriptor |-> [k \in 1..Len(ps) |-> ps[k].Type]]

(***************************** alignment: seeding **************************)
\* _py_phase_counter
py_phase_counter(v) == Cardinality({i \in 1..Len(v) : v[i].type # Undetermined})

\* the subsequence of s at the positions of keep, in order
RECURSIVE Keep(_, _, _)
Keep(s, keep, i) ==
    IF i > Len(s) THEN <<>>
    ELSE (IF i \in keep THEN <<s[i]>> ELSE <<>>) \o Keep(s, keep, i + 1)

\* ndarray.argmax: the first position of the largest value
ArgMax(s) ==
    Min({i \in 1..Len(s) : \A j \in 1..Len(s) : s[j] <= s[i]}) - 1

\* append_phases for the segments of v at positions from .. to - 1, as
\* members of curve cv
RECURSIVE AppendSegments(_, _, _, _, _, _, _)
AppendSegments(out, v, cv, from, to, et, mpt) ==
    IF out.exc # "None" \/ from >= to THEN out
    ELSE AppendSegments(
            append_phases(out.phases, At(v, from), <<cv, from>>, et, mpt),
            v, cv, from + 1, to, et, mpt)

\* the major impulse time of the curve seeding the left slots
LeftMajorPhaseTime(data) ==
    Mul(Div(Num(data[Start]), Half), Num(data[Duration]))

\* the major impulse time of a curve: the middle of its major impulse
MajorPhaseTime(data) ==
    Add(Num(data[Start]), Mul(Half, Num(data[Duration])))

\* The slots before the loop: those of the segments before the major impulse
\* of the curve whose major impulse comes latest, the major Impulse slot, and
\* those of the segments after the major impulse of the curve with most
\* segments after it.  mid is the position of the major Impulse slot.
Seeded(exc, ps, mid) == [exc |-> exc, phases |-> ps, major_phase_id |-> mid]

SeedPhases(pd, midx, et) ==
    LET length == [c \in 1..Len(pd) |-> py_phase_counter(pd[c])]
        id_most_left_phases == ArgMax(midx)
        id_most_right_phases ==
            ArgMax([c \in 1..Len(pd) |-> length[c] - midx[c]])
        lv == At(pd, id_most_left_phases)
        lm == At(midx, id_most_left_phases)
        rv == At(pd, id_most_right_phases)
        rm == At(midx, id_most_right_phases)
    IN  IF Len(pd) = 0 THEN Seeded("ValueError", <<>>, 0)
        ELSE IF At(lv, lm).data.isNone THEN Seeded("TypeError", <<>>, 0)
        ELSE
        LET lt == LeftMajorPhaseTime(At(lv, lm).data)
            left == AppendSegments(Out("None", <<>>), lv,
                                   id_most_left_phases, 0, lm, et, lt)
            mid == Len(left.phases)
            major == add_to_phase(Append(left.phases, NewPhase(Impulse)),
                                  At(lv, lm), <<id_most_left_phases, lm>>,
                                  mid, et, lt)
        IN  IF left.exc # "None" THEN Seeded(left.exc, left.phases, 0)
            ELSE IF At(rv, rm).data.isNone
                 THEN Seeded("TypeError", major.phases, mid)
            ELSE LET right ==
                        AppendSegments(major, rv, id_most_right_phases,
                                       rm + 1, Len(rv), et,
                                       MajorPhaseTime(At(rv, rm).data))
                 IN  Seeded(right.exc, right.phases, mid)

(***************************** alignment: refinement ***********************)
\* what handling one segment gives: the exception that left it, the slots,
\* and the loop's prev_phase and side
Step(exc, ps, prev, sd) ==
    [exc |-> exc, phases |-> ps, prev_phase |-> prev, side |-> sd]

\* cur_phase < major_phase, cur_phase an int or None and major_phase a
\* (curve, segment) tuple: Python 3 orders neither of them against a tuple
OrderAgainstTuple(cur, major_phase) == Raise("TypeError")

\* the side of the segment, kept when the curve has no major impulse
NextSide(sd, cur, major_phase) ==
    IF sd = "Both" THEN [exc |-> "None", side |-> sd]
    ELSE LET less == OrderAgainstTuple(cur, major_phase)
         IN  IF IsRaise(less) THEN [exc |-> less.k, side |-> sd]
             ELSE [exc |-> "None",
                   side |-> IF less.n = 1 THEN "Left" ELSE "Right"]

\* phases[cur_phase][Members].remove(id_tup), done for a segment whose slot
\* lies after prev
TakeOut(ps, id_tup, cur, prev) ==
    IF cur # NoneId /\ prev # NoneId /\ cur > prev
    THEN [ps EXCEPT ![cur + 1].Members = @ \ {id_tup}]
    ELSE ps

\* a segment that is not the major impulse: kept in its slot when that lies
\* after prev and costs no energy, otherwise taken out and given the optimal
\* slot or a new one
Reassign(ps, phase_data, id_tup, cur, prev, sd, et, mpt, mid) ==
    LET later == cur # NoneId /\ prev # NoneId /\ cur > prev
        e == IF later THEN get_energy(At(ps, cur), phase_data, et, mpt)
             ELSE PosInf
        taken == TakeOut(ps, id_tup, cur, prev)
        best_phase ==
            optimal_phase(taken, phase_data, id_tup, prev, sd, et, mpt, mid)
        out == IF best_phase.id = NoneId
               THEN insert_phase(taken, phase_data, id_tup, prev, sd, et,
                                 mpt, mid)
               ELSE add_to_phase(taken, phase_data, id_tup, best_phase.id,
                                 et, mpt)
    IN  IF cur # NoneId /\ prev = NoneId THEN Step("TypeError", ps, prev, sd)
        ELSE IF IsRaise(e) THEN Step(e.k, ps, prev, sd)
        ELSE IF later /\ e = Num(0) THEN Step("None", ps, cur, sd)
        ELSE IF best_phase.exc # "None"
             THEN Step(best_phase.exc, taken, prev, sd)
        ELSE Step(out.exc, out.phases, cur, sd)

\* the body of the loop over the segments of curve cv, for segment sg
AlignedSegment(ps, v, cv, sg, prev, sd, fr, mid, major, et) ==
    LET phase_data == At(v, sg)
        major_phase == <<cv, major>>
        mpt == MajorPhaseTime(At(v, major).data)
        id_tup == <<cv, sg>>
        cur_phase == current_phase(ps, id_tup)
        sided == NextSide(sd, cur_phase, major_phase)
    IN  IF At(v, major).data.isNone THEN Step("TypeError", ps, prev, sd)
        ELSE IF phase_data.data.isNone THEN Step("None", ps, prev, sd)
        ELSE IF sided.exc # "None" THEN Step(sided.exc, ps, prev, sd)
        ELSE IF id_tup = major_phase
             THEN LET out == IF fr /\ cur_phase = NoneId
                             THEN add_to_phase(ps, phase_data, id_tup, mid,
                                               et, mpt)
                             ELSE Out("None", ps)
                  IN  Step(out.exc, out.phases, cur_phase, sided.side)
        ELSE Reassign(ps, phase_data, id_tup, cur_phase, prev, sided.side,
                      et, mpt, mid)

(***************************** alignment: operations ***********************)
\* phenotypes.times.max(): the time the longest curve ends
EndTime == Num(SegmentDuration * MaxAlignSegments)

\* the locals of get_phase_phenotypes_aligned where the call stands
AlignAt(pc, exc, pd, cs, midx, ps, mid) ==
    /\ al_pc' = pc
    /\ al_exc' = exc
    /\ plate_data' = pd
    /\ coords' = cs
    /\ major_idx' = midx
    /\ phases' = ps
    /\ major_phase_id' = mid
    /\ n' = 0
    /\ id_curve' = 0
    /\ id_phase' = 0
    /\ prev_phase' = NoneId
    /\ side' = "Left"
    /\ first_run' = TRUE
    /\ aligned' = NoAligned
    /\ call' = NoCall

\* get_phase_phenotypes_aligned is called with a QC filter f: the curves
\* that pass it and have a major impulse are kept, and the slots are seeded
AlignStart ==
    /\ al_pc = "idle"
    /\ \E f \in [1..Len(plate) -> BOOLEAN] :
        LET idx == [c \in 1..Len(plate) |->
                        np_ma_get_major_impulse_indices(plate[c])]
            passed == {c \in 1..Len(plate) : ~f[c]}
            eligible == {c \in passed : IsNum(idx[c])}
            pd == Keep([c \in 1..Len(plate) |-> plate[c].v], eligible, 1)
            cs == Keep([c \in 1..Len(plate) |-> c], eligible, 1)
            midx == Keep([c \in 1..Len(plate) |-> idx[c].n], eligible, 1)
        IN  /\ filt' = f
            /\ end_time' = EndTime
            /\ IF \E c \in passed : IsRaise(idx[c])
               THEN AlignAt("raised",
                            idx[CHOOSE c \in passed : IsRaise(idx[c])].k,
                            <<>>, <<>>, <<>>, <<>>, 0)
               ELSE \E seed \in {SeedPhases(pd, midx, EndTime)} :
                        AlignAt(IF seed.exc = "None" THEN "loop" ELSE "raised",
                                seed.exc, pd, cs, midx, seed.phases,
                                seed.major_phase_id)
    /\ UNCHANGED <<seg_vars, meta_vars, other_vars>>

\* the loop stands at the last segment of its curve, of the plate
AtCurveEnd == id_phase + 1 >= Len(At(plate_data, id_curve))
AtPassEnd == AtCurveEnd /\ id_curve + 1 >= Len(plate_data)

\* one turn of the loop over the segments of a curve, with what follows the
\* curve's last segment (the next curve) and the plate's last segment (the
\* end of the pass and, after the last pass, the return)
AlignSegment ==
    /\ al_pc = "loop"
    /\ \E step \in {AlignedSegment(phases, At(plate_data, id_curve), id_curve,
                                   id_phase, prev_phase, side, first_run,
                                   major_phase_id, At(major_idx, id_curve),
                                   end_time)} :
        /\ phases' = IF step.exc = "None" /\ AtPassEnd
                     THEN PassEnd(step.phases, n, Len(coords))
                     ELSE step.phases
        /\ IF step.exc # "None"
           THEN /\ al_pc' = "raised"
                /\ al_exc' = step.exc
                /\ UNCHANGED <<n, id_curve, id_phase, prev_phase, side,
                               first_run, aligned>>
           ELSE IF ~AtCurveEnd
           THEN /\ id_phase' = id_phase + 1
                /\ prev_phase' = step.prev_phase
                /\ side' = step.side
                /\ UNCHANGED <<al_pc, al_exc, n, id_curve, first_run, aligned>>
           ELSE IF ~AtPassEnd
           THEN /\ id_curve' = id_curve + 1
                /\ id_phase' = 0
                /\ prev_phase' = NoneId
                /\ side' = "Left"
                /\ UNCHANGED <<al_pc, al_exc, n, first_run, aligned>>
           ELSE /\ first_run' = FALSE
                /\ n' = n + 1
                /\ id_curve' = 0
                /\ id_phase' = 0
                /\ prev_phase' = NoneId
                /\ side' = "Left"
                /\ al_exc' = "None"
                /\ IF n = Passes - 1
                   THEN /\ al_pc' = "returned"
                        /\ aligned' = ravel_phase_phenotypes(
                                        phases', plate_data, coords, Len(plate))
                   ELSE UNCHANGED <<al_pc, aligned>>
    /\ UNCHANGED seg_vars
    /\ UNCHANGED other_vars
    /\ UNCHANGED <<meta_vars, filt, end_time, plate_data, coords, major_idx,
                   major_phase_id, call>>

AlignChoices ==
    {Choice(Impulse, d, 1, 0, 0) : d \in {1, 2}}
    \cup {Choice(Flat, 0, 0, 0, 0), Choice(Undetermined, 0, 0, 0, 0)}

AlignPlates == PlatesWithin(AlignChoices, MaxAlignSegments) \ {<<>>}

InitAlign == InitWith(AlignPlates)
NextAlign == AlignStart \/ AlignSegment
SpecAlign == InitAlign /\ [][NextAlign]_vars

\* the curve of plate cell c passes the filter and has a major impulse
IsEligible(c) ==
    /\ ~filt[c]
    /\ IsNum(np_ma_get_major_impulse_indices(plate[c]))

\* C10: for a plate with at least one eligible curve, whenever the call of
\* get_phase_phenotypes_aligned has ended it has returned, after exactly 10
\* passes and without an exception, the tensor and the slot descriptor.
C10_AlignmentReturnsAfterTenPasses ==
    (al_pc \in {"raised", "returned"}
        /\ \E c \in 1..Len(plate) : IsEligible(c)) =>
        /\ al_pc = "returned"
        /\ al_exc = "None"
        /\ n = Passes
        /\ aligned.status = "returned"

(***************************** alignment: the steps on their own ***********)
\* The steps of a refinement pass, each applied on its own to the slots the
\* seeding left.  The side of a segment is an input of the step: Left for a
\* segment before its curve's major impulse, Right for one after it.  prev
\* is None or the slot of an earlier segment of the same curve.
SideOf(cv, sg) == IF sg < At(major_idx, cv) THEN "Left" ELSE "Right"

PrevChoices(cv, sg) ==
    {NoneId} \cup {current_phase(phases, <<cv, s>>) : s \in 0..(sg - 1)}

\* the segment, and the major impulse time of its curve, of a reference
SegmentOf(id_tup) == At(At(plate_data, id_tup[1]), id_tup[2])

MajorTimeOf(cv) ==
    MajorPhaseTime(At(At(plate_data, cv), At(major_idx, cv)).data)

\* the re-assignment of a segment that has phenotypes and is not its curve's
\* major impulse
ReassignSegment ==
    /\ al_pc = "loop"
    /\ call.count < MaxCalls
    /\ \E cv \in 0..(Len(plate_data) - 1) :
       \E sg \in 0..(Len(At(plate_data, cv)) - 1) :
        /\ sg # At(major_idx, cv)
        /\ ~SegmentOf(<<cv, sg>>).data.isNone
        /\ \E prev \in PrevChoices(cv, sg) :
           \E step \in {Reassign(phases, SegmentOf(<<cv, sg>>), <<cv, sg>>,
                                 current_phase(phases, <<cv, sg>>), prev,
                                 SideOf(cv, sg), end_time, MajorTimeOf(cv),
                                 major_phase_id)} :
            /\ phases' = step.phases
            /\ call' = [op |-> "reassign", count |-> call.count + 1,
                        before |-> phases, id_tup |-> <<cv, sg>>,
                        cur |-> current_phase(phases, <<cv, sg>>),
                        prev |-> prev, side |-> SideOf(cv, sg),
                        exc |-> step.exc]
    /\ UNCHANGED seg_vars
    /\ UNCHANGED other_vars
    /\ UNCHANGED <<meta_vars, filt, end_time, al_pc, al_exc, plate_data,
                   coords, major_idx, major_phase_id, n, id_curve, id_phase,
                   prev_phase, side, first_run, aligned>>

\* the major impulse of curve cv met in a pass: in the first pass it joins
\* the slot at position major_phase_id unless it is in a slot already
MajorSegment ==
    /\ al_pc = "loop"
    /\ call.count < MaxCalls
    /\ \E cv \in 0..(Len(plate_data) - 1) :
       \E out \in {IF first_run
                      /\ current_phase(phases, <<cv, At(major_idx, cv)>>) = NoneId
                   THEN add_to_phase(phases, SegmentOf(<<cv, At(major_idx, cv)>>),
                                     <<cv, At(major_idx, cv)>>, major_phase_id,
                                     end_time, MajorTimeOf(cv))
                   ELSE Out("None", phases)} :
        /\ phases' = out.phases
        /\ call' = [op |-> "major", count |-> call.count + 1,
                    before |-> phases, id_tup |-> <<cv, At(major_idx, cv)>>,
                    cur |-> current_phase(phases, <<cv, At(major_idx, cv)>>),
                    prev |-> NoneId, side |-> "Left", exc |-> out.exc]
    /\ UNCHANGED seg_vars
    /\ UNCHANGED other_vars
    /\ UNCHANGED <<meta_vars, filt, end_time, al_pc, al_exc, plate_data,
                   coords, major_idx, major_phase_id, n, id_curve, id_phase,
                   prev_phase, side, first_run, aligned>>

\* the end of a pass: the slots sorted, the small ones discarded
EndPass ==
    /\ al_pc = "loop"
    /\ call.count < MaxCalls
    /\ n < Passes
    /\ phases' = PassEnd(phases, n, Len(coords))
    /\ first_run' = FALSE
    /\ n' = n + 1
    /\ call' = [op |-> "pass_end", count |-> call.count + 1,
                before |-> phases, id_tup |-> <<0, 0>>, cur |-> NoneId,
                prev |-> NoneId, side |-> "Left", exc |-> "None"]
    /\ UNCHANGED seg_vars
    /\ UNCHANGED other_vars
    /\ UNCHANGED <<meta_vars, filt, end_time, al_pc, al_exc, plate_data,
                   coords, major_idx, major_phase_id, id_curve, id_phase,
                   prev_phase, side, aligned>>

SlotChoices ==
    {Choice(Impulse, 1, 1, 0, 0), Choice(Flat, 0, 0, 0, 0),
     Choice(Undetermined, 0, 0, 0, 0)}

\* x, k times
RECURSIVE Repeat(_, _)
Repeat(x, k) == IF k = 0 THEN <<>> ELSE <<x>> \o Repeat(x, k - 1)

\* a rising curve: gaps Undetermined segments, then flats Flat segments,
\* then the Impulse
RisingCurve(gaps, flats) ==
    Cell(VectorOf(Repeat(Choice(Undetermined, 0, 0, 0, 0), gaps)
                  \o Repeat(Choice(Flat, 0, 0, 0, 0), flats)
                  \o <<Choice(Impulse, 1, 1, 0, 0)>>))

RisingCurves ==
    {RisingCurve(gaps, flats) :
        gaps \in 0..MaxLeadingGaps, flats \in 0..MaxLeftFlats}

\* every plate of few segments, and every plate of two rising curves
SlotPlates ==
    (PlatesWithin(SlotChoices, MaxSlotSegments) \ {<<>>})
    \cup {<<a, b>> : a \in RisingCurves, b \in RisingCurves}

InitSlots == InitWith(SlotPlates)
NextSlots == AlignStart \/ ReassignSegment \/ MajorSegment \/ EndPass
SpecSlots == InitSlots /\ [][NextSlots]_vars

\* the last step re-assigned a segment and no exception left it
Reassigned == call.op = "reassign" /\ call.exc = "None"

\* the slots the search of the last step saw
CallTaken == TakeOut(call.before, call.id_tup, call.cur, call.prev)

\* the energy of the last step's segment against the slot at position k of
\* the slots ps
CallEnergy(ps, k) ==
    get_energy(At(ps, k), SegmentOf(call.id_tup), end_time,
               MajorTimeOf(call.id_tup[1]))

\* the last step left the segment in the slot it had: that slot lies after
\* prev and costs no energy
CallKept ==
    /\ call.cur # NoneId /\ call.prev # NoneId /\ call.cur > call.prev
    /\ CallEnergy(call.before, call.cur) = Num(0)

\* the slots reachable for the last step's segment
CallReachable ==
    LET possible == get_possible(CallTaken, call.prev, call.side,
                                 major_phase_id)
    IN  {possible[i] : i \in 1..Len(possible)} \cap 0..(Len(CallTaken) - 1)

\* the reachable slots whose energy against the segment is below 1
CallFitting == {k \in CallReachable : Lt(CallEnergy(CallTaken, k), Num(1))}

\* the slots after the step are those before it with the segment added to
\* the slot at position k
AddedTo(k) ==
    /\ Len(phases) = Len(CallTaken)
    /\ call.id_tup \in At(phases, k).Members
    /\ \A j \in 0..(Len(phases) - 1) :
        j # k => At(phases, j) = At(CallTaken, j)

\* the slots after the step are those before it with a new slot at position
\* k, holding the segment alone, anchored at the segment's anchor
NewSlotAt(k) ==
    /\ Len(phases) = Len(CallTaken) + 1
    /\ At(phases, k).Members = {call.id_tup}
    /\ At(phases, k).Type = SegmentOf(call.id_tup).type
    /\ At(phases, k).Anchor =
            AnchorOf(SegmentOf(call.id_tup).data, end_time,
                     MajorTimeOf(call.id_tup[1]))
    /\ SubSeq(phases, 1, k) = SubSeq(CallTaken, 1, k)
    /\ SubSeq(phases, k + 2, Len(phases)) =
            SubSeq(CallTaken, k + 1, Len(CallTaken))

AssignedTo ==
    {k \in 0..(Len(phases) - 1) :
        /\ call.id_tup \in At(phases, k).Members
        /\ \/ NewSlotAt(k)
           \/ /\ Len(phases) = Len(CallTaken)
              /\ call.id_tup \notin At(CallTaken, k).Members}

\* the positions of the slots holding segment sg of curve cv
SlotsOf(cv, sg) ==
    {j \in 0..(Len(phases) - 1) : <<cv, sg>> \in At(phases, j).Members}

SeedMajor == <<ArgMax(major_idx), At(major_idx, ArgMax(major_idx))>>
MajorSlot(ps) == current_phase(ps, SeedMajor)

\* position k lies on the side sd of position major
OnSide(sd, k, major) == IF sd = "Left" THEN k < major ELSE k > major

ReturnAligned ==
    /\ al_pc = "loop"
    /\ al_pc' = "returned"
    /\ aligned' = ravel_phase_phenotypes(phases, plate_data, coords, Len(plate))
    /\ UNCHANGED seg_vars
    /\ UNCHANGED other_vars
    /\ UNCHANGED <<meta_vars, filt, end_time, al_exc, plate_data, coords,
                   major_idx, phases, major_phase_id, n, id_curve, id_phase,
                   prev_phase, side, first_run, call>>

\* the curve of every cell of a plate whose slots are drawn: Flat segments
\* around the major Impulse at position 1
PassEndCurve ==
    VectorOf([i \in 1..MaxSlots |->
                IF i = 2 THEN Choice(Impulse, 1, 1, 0, 0)
                ELSE Choice(Flat, 0, 0, 0, 0)])

PassEndAnchors == {Rat(-1, 2), Rat(1, 4)}

\* plates of so many curves that 5% of them is one curve or more
PassEndSizes == {MaxCurves - 1, MaxCurves}

\* the first pass, the pass before the last one, the last one
PassEndPasses == {0, Passes - 2, Passes - 1}

\* the slot of segment sg holding that segment of the first members curves
DrawnSlot(sg, members, anchor) ==
    [Type |-> At(PassEndCurve, sg).type,
     Members |-> {<<cv, sg>> : cv \in 0..(members - 1)},
     hasAnchor |-> TRUE, Anchor |-> anchor]

DrawnSlots ==
    UNION {{[k \in 1..len |-> DrawnSlot(k - 1, m[k], a[k])] :
                m \in [1..len -> 0..MaxMembers],
                a \in [1..len -> PassEndAnchors]} :
           len \in 0..MaxSlots}

\* the call stands in its loop at the end of a pass, every curve eligible
InitPassEnd ==
    /\ plate \in {[c \in 1..size |-> Cell(PassEndCurve)] : size \in PassEndSizes}
    /\ phenotypes = [c \in 1..Len(plate) |-> NoLowPoint]
    /\ meta_phenotype = "none"
    /\ ret = NoRet
    /\ filt = [c \in 1..Len(plate) |-> FALSE]
    /\ end_time = EndTime
    /\ al_pc = "loop"
    /\ al_exc = "None"
    /\ plate_data = [c \in 1..Len(plate) |-> PassEndCurve]
    /\ coords = [c \in 1..Len(plate) |-> c]
    /\ major_idx = [c \in 1..Len(plate) |-> 1]
    /\ phases \in DrawnSlots
    /\ major_phase_id = 1
    /\ n \in PassEndPasses
    /\ id_curve = 0
    /\ id_phase = 0
    /\ prev_phase = NoneId
    /\ side = "Left"
    /\ first_run = (n = 0)
    /\ aligned = NoAligned
    /\ call = NoCall
    /\ SegIdle
    /\ OtherIdle

NextPassEnd == EndPass \/ ReturnAligned
SpecPassEnd == InitPassEnd /\ [][NextPassEnd]_vars

\* no slot of the slots at hand is the slot s
Discarded(s) == \A k \in 1..Len(phases) : phases[k] # s

\* the slot s has fewer members than 5% of the eligible curves
BelowFivePercent(s) == 100 * Cardinality(s.Members) < 5 * Len(coords)

\* C17: after the end of each of the passes before the last one every slot
\* with fewer members than 5% of the eligible curves is gone and its members
\* are in no slot; after the end of the last pass exactly the slots without
\* members are gone.
C17_SmallSlotsAreDiscarded ==
    call.op = "pass_end" =>
        /\ n - 1 < Passes - 1 =>
            \A k \in 1..Len(call.before) :
                BelowFivePercent(call.before[k]) =>
                    /\ Discarded(call.before[k])
                    /\ \A id_tup \in call.before[k].Members :
                        current_phase(phases, id_tup) = NoneId
        /\ n - 1 = Passes - 1 =>
            \A k \in 1..Len(call.before) :
                Discarded(call.before[k]) <=> call.before[k].Members = {}

\* a pass before the last one has ended: a slot with a member was discarded
\* for being below 5%, another slot was kept
C17_Witness ==
    /\ call.op = "pass_end"
    /\ n - 1 < Passes - 1
    /\ \E k \in 1..Len(call.before) :
        /\ call.before[k].Members # {}
        /\ BelowFivePercent(call.before[k])
        /\ Discarded(call.before[k])
    /\ phases # <<>>

\* the anchors of the slots ps never decrease
SortedSlots(ps) ==
    \A k \in 1..(Len(ps) - 1) : Le(ps[k].Anchor, ps[k + 1].Anchor)

\* C18: after the end of a pass the slots are in the order of their anchors,
\* none before a slot with a smaller anchor, and the descriptor returned
\* after the last pass lists the slots in that order.
C18_SlotsSortedByAnchor ==
    call.op = "pass_end" =>
        /\ SortedSlots(phases)
        /\ (al_pc = "returned" /\ n = Passes) =>
            /\ Len(aligned.descriptor) = Len(phases)
            /\ \A k \in 1..Len(phases) : aligned.descriptor[k] = phases[k].Type

\* the call has returned after the last pass, which found its slots out of
\* order and kept two or more
C18_Witness ==
    /\ call.op = "pass_end"
    /\ al_pc = "returned"
    /\ n = Passes
    /\ ~SortedSlots(call.before)
    /\ Len(phases) >= 2
    /\ \E k \in 1..(Len(phases) - 1) : phases[k].Type # phases[k + 1].Type

(***************************** alignment: the curves left out **************)
\* a curve without an Impulse, one rising to its Impulse, one opening with it
RavelCurves ==
    {Cell(VectorOf(<<Choice(Flat, 0, 0, 0, 0)>>)),
     Cell(VectorOf(<<Choice(Flat, 0, 0, 0, 0), Choice(Impulse, 1, 1, 0, 0)>>)),
     Cell(VectorOf(<<Choice(Impulse, 1, 1, 0, 0), Choice(Flat, 0, 0, 0, 0)>>))}

RavelPlates == UNION {[1..len -> RavelCurves] : len \in 1..MaxRavelCells}

InitRavel == InitWith(RavelPlates)
NextRavel ==
    AlignStart \/ ReassignSegment \/ MajorSegment \/ EndPass \/ ReturnAligned
SpecRavel == InitRavel /\ [][NextRavel]_vars

\* the plate cell of the curve a member refers to
CellOf(id_tup) == At(coords, id_tup[1])

\* C19: while the alignment runs and when it has returned, every member of a
\* slot is a segment of a curve that passed the filter and has a major
\* impulse; in the tensor returned every block of every other plate cell is
\* NaN.
C19_LeftOutCurvesStayOut ==
    al_pc \in {"loop", "returned"} =>
        /\ \A k \in 1..Len(phases) :
            \A id_tup \in phases[k].Members :
                /\ id_tup[1] \in 0..(Len(coords) - 1)
                /\ IsEligible(CellOf(id_tup))
                /\ At(plate_data, id_tup[1]) = plate[CellOf(id_tup)].v
                /\ id_tup[2] \in 0..(Len(plate[CellOf(id_tup)].v) - 1)
        /\ al_pc = "returned" =>
            \A c \in 1..Len(plate) :
                ~IsEligible(c) =>
                    \A k \in 1..Len(aligned.tensor[c]) :
                        aligned.tensor[c][k].nan

\* the call has returned for a plate with a curve the filter rejected, a
\* curve without a major impulse and, after both, a curve with a block of
\* phenotypes
C19_Witness ==
    /\ al_pc = "returned"
    /\ \E c \in 1..Len(plate) :
        /\ filt[c]
        /\ IsNum(np_ma_get_major_impulse_indices(plate[c]))
    /\ \E c \in 1..Len(plate) :
        /\ ~filt[c]
        /\ ~IsNum(np_ma_get_major_impulse_indices(plate[c]))
    /\ \E c \in 3..Len(plate) :
        /\ IsEligible(c)
        /\ \E k \in 1..Len(aligned.tensor[c]) : ~aligned.tensor[c][k].nan

(***************************** segmentation ********************************)
\* a sample as the engine reads it: the signs of the second derivative and
\* of the local slope against their noise thresholds
Samples == {[d2 |-> a, slope |-> b] : a \in {-1, 0, 1}, b \in {-1, 0, 1}}

\* the phase of a sample, the state before it being prev
Classify(prev, s) ==
    IF s.d2 = 0 /\ s.slope = 0 THEN Flat
    ELSE IF s.d2 > 0 THEN GrowthAcceleration
    ELSE IF s.d2 = 0 /\ s.slope > 0 THEN Impulse
    ELSE IF s.d2 < 0
         THEN IF prev = Impulse /\ s.slope < 0 THEN Collapse
              ELSE GrowthRetardation
    ELSE IF prev \in {GrowthRetardation, Collapse} THEN Collapse
    ELSE Undetermined

\* the single pass, left to right, from the state Undetermined: the phase
\* of every index
RECURSIVE Labels(_, _, _)
Labels(samples, i, prev) ==
    IF i > Len(samples) THEN <<>>
    ELSE <<Classify(prev, samples[i])>>
         \o Labels(samples, i + 1, Classify(prev, samples[i]))

Run(phase, start, end) == [phase |-> phase, start |-> start, end |-> end]

RunLength(r) == r.end - r.start + 1

\* the maximal runs of equal phase of labels from TLA index i on, the run
\* open at i having begun at Python position start
RECURSIVE Runs(_, _, _)
Runs(labels, i, start) ==
    IF i > Len(labels) THEN <<>>
    ELSE IF i = Len(labels) \/ labels[i + 1] # labels[i]
         THEN <<Run(labels[i], start, i - 1)>> \o Runs(labels, i + 1, i)
    ELSE Runs(labels, i + 1, start)

\* runs next to each other with one phase joined into one run
RECURSIVE Joined(_)
Joined(runs) ==
    IF Len(runs) < 2 THEN runs
    ELSE IF runs[1].phase = runs[2].phase
         THEN Joined(<<Run(runs[1].phase, runs[1].start, runs[2].end)>>
                     \o SubSeq(runs, 3, Len(runs)))
    ELSE <<runs[1]>> \o Joined(Tail(runs))

\* the phase a short run at k takes: that of the neighbour giving the longer
\* run, the left one if they give the same
NeighbourPhase(runs, k) ==
    IF k = 1 THEN runs[k + 1].phase
    ELSE IF RunLength(runs[k + 1]) > RunLength(runs[k - 1])
         THEN runs[k + 1].phase
    ELSE runs[k - 1].phase

\* short runs left out instead of merged
RECURSIVE DropShortRuns(_, _)
DropShortRuns(runs, minlen) ==
    LET short == {k \in 1..(Len(runs) - 1) : RunLength(runs[k]) < minlen}
    IN  IF short = {} THEN runs
        ELSE DropShortRuns(SubSeq(runs, 1, Min(short) - 1)
                           \o SubSeq(runs, Min(short) + 1, Len(runs)), minlen)

\* every run shorter than minlen but the last takes the phase of a
\* neighbour, the first such run first, until none is left
RECURSIVE MergeShortRuns(_, _)
MergeShortRuns(runs, minlen) ==
    LET short == {k \in 1..(Len(runs) - 1) : RunLength(runs[k]) < minlen}
    IN  IF short = {} THEN runs
        ELSE MergeShortRuns(
                Joined([k \in 1..Len(runs) |->
                            IF k = Min(short)
                            THEN Run(NeighbourPhase(runs, k), runs[k].start,
                                     runs[k].end)
                            ELSE runs[k]]),
                minlen)

\* the segments of a curve: one Undetermined segment for a curve shorter
\* than minlen
segment(samples, minlen) ==
    IF Len(samples) < minlen
    THEN <<Run(Undetermined, 0, Len(samples) - 1)>>
    ELSE MergeShortRuns(Runs(Labels(samples, 1, Undetermined), 1, 0), minlen)

Segment ==
    /\ segments.status = "none"
    /\ segments' = [status |-> "done",
                    v |-> segment(curve.samples, curve.minlen)]
    /\ UNCHANGED <<curve, meta_vars, align_vars, other_vars>>

\* every curve of few samples, with every small minimum segment length
InitSegment ==
    /\ \E len \in 1..MaxSamples :
       \E s \in [1..len -> Samples] :
       \E m \in 2..MaxMinLength :
        curve = [samples |-> s, minlen |-> m]
    /\ segments = NoSegments
    /\ plate = <<>>
    /\ phenotypes = <<>>
    /\ meta_phenotype = "none"
    /\ ret = NoRet
    /\ AlignIdle
    /\ OtherIdle

NextSegment == Segment
SpecSegment == InitSegment /\ [][NextSegment]_vars

\* C20: the segments of a curve are in time order, each a range of indices
\* of the curve, the first from the first index, each next one from the
\* index after the one before it, the last to the last index: every index
\* lies in exactly one segment.
C20_SegmentsPartitionTheCurve ==
    segments.status = "done" =>
        /\ segments.v # <<>>
        /\ \A k \in 1..Len(segments.v) :
            /\ 0 <= segments.v[k].start
            /\ segments.v[k].start <= segments.v[k].end
            /\ segments.v[k].end <= Len(curve.samples) - 1
        /\ \A k \in 1..(Len(segments.v) - 1) :
            segments.v[k].end + 1 = segments.v[k + 1].start
        /\ \A i \in 0..(Len(curve.samples) - 1) :
            Cardinality({k \in 1..Len(segments.v) :
                segments.v[k].start <= i /\ i <= segments.v[k].end}) = 1

\* a curve segmented into several segments, one of them Undetermined, after
\* a short run was merged into a neighbour
C20_Witness ==
    /\ segments.status = "done"
    /\ Len(segments.v) >= 2
    /\ \E k \in 1..Len(segments.v) : segments.v[k].phase = Undetermined
    /\ segments.v # Runs(Labels(curve.samples, 1, Undetermined), 1, 0)

(***************************** the job queue *******************************)
\* The job server of scanomatic/server.  A job model is a record: its id,
\* its type, its priority, the scanner a Scan job asks for and the job id a
\* Compile job waits for (content_model.start_condition).  An exception
\* that leaves a call is the string naming it; "None" is no exception.

\* the members of JOB_TYPE that are not its default, in cycling order
JOB_TYPE == <<"Scan", "Compile", "Analysis", "Features">>

\* len(JOB_TYPE): the cycling members and the default one
JobTypeCount == Len(JOB_TYPE) + 1

TypeIndex(t) == CHOOSE i \in 1..Len(JOB_TYPE) : JOB_TYPE[i] = t

\* CycleEnum.cycle
cycle(t) == JOB_TYPE[(TypeIndex(t) % Len(JOB_TYPE)) + 1]

\* Python's None where a job model is expected
NoJob ==
    [id |-> NoJobId, type |-> "None", priority |-> 0, scanner |-> 0,
     start_condition |-> NoJobId]

Job(id, type, priority, scanner, start_condition) ==
    [id |-> id, type |-> type, priority |-> priority, scanner |-> scanner,
     start_condition |-> start_condition]

\* Queue.__contains__
queue_contains(q, job_id) == \E k \in 1..Len(q) : q[k].id = job_id

\* Queue._get_job_by_type
get_job_by_type(q, job_type) ==
    LET of_type(job) == job.type = job_type
    IN  SelectSeq(q, of_type)

\* Queue._has_job_of_type
has_job_of_type(q, job_type) == get_job_by_type(q, job_type) # <<>>

\* Queue.__next_priority_job_type: the type the rotation stops at
RECURSIVE next_priority_job_type(_, _, _)
next_priority_job_type(q, np, attempts) ==
    IF ~has_job_of_type(q, np) /\ attempts < JobTypeCount
    THEN next_priority_job_type(q, cycle(np), attempts + 1)
    ELSE np

\* Jobs.active_compile_project_jobs
active_compile_project_jobs(js) ==
    LET compiles(job) == job.type = "Compile"
    IN  SelectSeq(js, compiles)

\* _start_condition_met of Queue._get_allowed_compile_project_jobs
start_condition_met(q, js, this_job) ==
    /\ ~queue_contains(q, this_job.start_condition)
    /\ \A k \in 1..Len(active_compile_project_jobs(js)) :
        active_compile_project_jobs(js)[k].id # this_job.start_condition

\* Queue._get_allowed_compile_project_jobs
get_allowed_compile_project_jobs(q, js, queued_jobs) ==
    LET met(job) == start_condition_met(q, js, job)
    IN  SelectSeq(queued_jobs, met)

\* sorted(jobs, key=priority)[0]: the first job of the lowest priority
FirstByPriority(cand) ==
    cand[CHOOSE k \in 1..Len(cand) :
            /\ \A m \in 1..Len(cand) : cand[k].priority <= cand[m].priority
            /\ \A m \in 1..(k - 1) : cand[m].priority > cand[k].priority]

\* Queue.get_highest_priority: the job returned, NoJob for None, and the
\* _next_priority the call leaves
get_highest_priority(q, js, np) ==
    LET job_type == next_priority_job_type(q, np, 0)
        of_type == get_job_by_type(q, job_type)
        ordered == IF job_type = "Compile"
                   THEN get_allowed_compile_project_jobs(q, js, of_type)
                   ELSE of_type
    IN  [next_priority |-> job_type,
         job |-> IF ordered # <<>> THEN FirstByPriority(ordered) ELSE NoJob]

\* list.remove: the list without its first entry of that id
RECURSIVE WithoutJob(_, _)
WithoutJob(q, job_id) ==
    IF q = <<>> THEN <<>>
    ELSE IF Head(q).id = job_id THEN Tail(q)
    ELSE <<Head(q)>> \o WithoutJob(Tail(q), job_id)

\* jsonizer.purge of a job the queue file holds
purge == TRUE

\* Queue.remove of a job model
remove(q, job) ==
    IF queue_contains(q, job.id)
    THEN [queue |-> WithoutJob(q, job.id), ret |-> purge]
    ELSE [queue |-> q, ret |-> FALSE]

\* Queue.add of a job made with the default priority, below zero, and
\* Queue.reinstate: the priority after the last one of its type
add(q, job) ==
    LET of_type == get_job_by_type(q, job.type)
        last == CHOOSE k \in 1..Len(of_type) :
                    \A m \in 1..Len(of_type) :
                        of_type[m].priority <= of_type[k].priority
        priority == IF of_type # <<>> THEN of_type[last].priority + 1 ELSE 1
    IN  IF queue_contains(q, job.id) THEN q
        ELSE Append(q, [job EXCEPT !.priority = priority])

(***************************** the scanners ********************************)
\* what release_scanner leaves as owner: the dict {'pid': 0}
ReleasedOwner == -1

\* a job of an earlier run of the server that a saved scanner still names
StaleJobId == 9

\* a scanner model: its owner, its power, and whether it is the one
\* asked to be turned on
Scanner(owner, power, claiming) ==
    [owner |-> owner, power |-> power, claiming |-> claiming]

\* the active job of that id, NoJob if there is none
ActiveJob(js, job_id) ==
    IF \E k \in 1..Len(js) : js[k].id = job_id
    THEN js[CHOOSE k \in 1..Len(js) : js[k].id = job_id]
    ELSE NoJob

\* psutil.pid_exists(owner.pid) of the job model a scanner names as owner:
\* a queued job, and one dropped before its launch, has pid None
OwnerProcess(q, js, owner) ==
    IF ActiveJob(js, owner) # NoJob
    THEN IF ActiveJob(js, owner).alive THEN "alive" ELSE "dead"
    ELSE IF owner = StaleJobId THEN "dead"
    ELSE "TypeError"

\* ScannerPowerManager._power_down; success is what the power manager says
power_down(scanner, success) ==
    IF success
    THEN [scanner EXCEPT !.power = FALSE, !.claiming = FALSE]
    ELSE scanner

\* ScannerPowerManager.request_claim
request_claim(scs, q, js, rpc_job_model, success) ==
    LET s == rpc_job_model.scanner
        held == scs[s].owner # NoOwner
    IN  IF s \notin DOMAIN scs
        THEN [scanners |-> scs, ret |-> FALSE, exc |-> "None"]
        ELSE IF held /\ scs[s].owner = ReleasedOwner
        THEN [scanners |-> scs, ret |-> FALSE, exc |-> "AttributeError"]
        ELSE IF held /\ scs[s].owner # rpc_job_model.id
                /\ OwnerProcess(q, js, scs[s].owner) = "TypeError"
        THEN [scanners |-> scs, ret |-> FALSE, exc |-> "TypeError"]
        ELSE IF held /\ scs[s].owner # rpc_job_model.id
                /\ OwnerProcess(q, js, scs[s].owner) = "alive"
        THEN [scanners |-> scs, ret |-> FALSE, exc |-> "None"]
        ELSE [scanners |->
                [scs EXCEPT ![s] =
                    [(IF held /\ scs[s].owner # rpc_job_model.id
                      THEN power_down(scs[s], success) ELSE scs[s])
                     EXCEPT !.owner = rpc_job_model.id]],
              ret |-> TRUE, exc |-> "None"]

\* ScannerPowerManager._get_scanner_by_owner_id: the scanner, 0 for None,
\* and the exception of reading the id of an owner that has none
get_scanner_by_owner_id(scs, job_id) ==
    IF \E s \in DOMAIN scs : scs[s].owner = ReleasedOwner
    THEN [scanner |-> 0, exc |-> "AttributeError"]
    ELSE IF \E s \in DOMAIN scs : scs[s].owner = job_id
    THEN [scanner |-> CHOOSE s \in DOMAIN scs :
                        /\ scs[s].owner = job_id
                        /\ \A t \in 1..(s - 1) : scs[t].owner # job_id,
          exc |-> "None"]
    ELSE [scanner |-> 0, exc |-> "None"]

\* ScannerPowerManager.release_scanner
release_scanner(scs, job_id, success) ==
    LET found == get_scanner_by_owner_id(scs, job_id)
        s == found.scanner
    IN  IF found.exc # "None"
        THEN [scanners |-> scs, ret |-> FALSE, exc |-> found.exc]
        ELSE IF s = 0
        THEN [scanners |-> scs, ret |-> FALSE, exc |-> "None"]
        ELSE [scanners |->
                [scs EXCEPT ![s] =
                    [(IF scs[s].power THEN power_down(scs[s], success)
                      ELSE scs[s])
                     EXCEPT !.owner = ReleasedOwner]],
              ret |-> TRUE, exc |-> "None"]

\* Queue.remove_and_free_potential_scanner_claim of a job model
remove_and_free_potential_scanner_claim(q, scs, job, success) ==
    LET removed == remove(q, job)
        freed == release_scanner(scs, job.id, success)
    IN  IF removed.ret /\ job.type = "Scan"
        THEN [queue |-> removed.queue, scanners |-> freed.scanners,
              ret |-> freed.ret, exc |-> freed.exc]
        ELSE [queue |-> removed.queue, scanners |-> scs,
              ret |-> removed.ret, exc |-> "None"]

(***************************** the server **********************************)
MaxServers == 2        \* most Server objects made
MaxLoops == 2          \* most _run threads started
MaxJobs == 2           \* most job ids given out
MaxQueued == 1         \* most jobs the queue file holds at the start
MaxScanners == 1       \* scanners known to the power manager
MaxAdminJobs == 1      \* most job ids given out where only RPC calls run
MaxAdminQueued == 1    \* most jobs the queue file holds there

\* config.rpc_server.admin, and the ids callers give
Admin == "admin"
Users == {Admin, "guest"}

\* Python's True and False as an RPC result
Ret(b) == IF b THEN "True" ELSE "False"

\* Server.__init__
Server ==
    [running |-> FALSE, started |-> FALSE, waitForJobsToTerminate |-> FALSE]

\* a _run thread of a server, before its first statement
Loop(s) == [server |-> s, pc |-> "start", i |-> 0]

\* Server.serving
serving(srv) == srv.started

\* Server.shutdown
shutdown(srv) ==
    [srv EXCEPT !.waitForJobsToTerminate = FALSE, !.running = FALSE]

\* Server.safe_shutdown
safe_shutdown(srv) ==
    [srv EXCEPT !.waitForJobsToTerminate = TRUE, !.running = FALSE]

\* Server.start: the threads after the call
start(srvs, lps, s) ==
    IF ~srvs[s].started THEN Append(lps, Loop(s)) ELSE lps

\* the active job made of a launched job model
Process(job) ==
    [id |-> job.id, type |-> job.type, alive |-> TRUE, abandoned |-> FALSE]

\* Jobs.running
running(js) == \E k \in 1..Len(js) : js[k].alive /\ ~js[k].abandoned

\* Jobs._get_job_effector: the types an effector exists for
HasEffector(job) == \E k \in 1..Len(JOB_TYPE) : JOB_TYPE[k] = job.type

\* Jobs.add dropping every Compile job as well
jobs_add_dropping_compile(js, job, conn) ==
    IF job.type \in {"Scan", "Compile"}
    THEN [jobs |-> js, ret |-> TRUE]
    ELSE [jobs |-> Append(js, Process(job)), ret |-> TRUE]

\* Jobs.add: the active jobs after the call and what it returns
jobs_add(js, job, conn) ==
    IF \E k \in 1..Len(js) : js[k].id = job.id
    THEN [jobs |-> js, ret |-> TRUE]
    ELSE IF ~HasEffector(job)
    THEN [jobs |-> js, ret |-> TRUE]
    ELSE IF ~conn /\ job.type = "Scan"
    THEN [jobs |-> js, ret |-> TRUE]
    ELSE [jobs |-> Append(js, Process(job)), ret |-> TRUE]

\* Server._job_may_be_created; resources is Resource_Status.check_resources
job_may_be_created(job, js, resources) ==
    IF job = NoJob THEN FALSE
    ELSE IF job.type = "Scan" THEN TRUE
    ELSE resources \/ Len(js) = 0

\* Server._attempt_job_creation
attempt_job_creation(q, np, js, conn, resources) ==
    LET hp == get_highest_priority(q, js, np)
        may == job_may_be_created(hp.job, js, resources)
        added == jobs_add(js, hp.job, conn)
    IN  IF may /\ added.ret
        THEN [queue |-> remove(q, hp.job).queue, jobs |-> added.jobs,
              next_priority |-> hp.next_priority]
        ELSE [queue |-> q, jobs |-> IF may THEN added.jobs ELSE js,
              next_priority |-> hp.next_priority]

\* ScannerPowerManager.update: _manage_claimer turns on the scanner asked
\* to be turned on; success is what the power manager says
update(scs, success) ==
    [s \in DOMAIN scs |->
        IF scs[s].claiming /\ ~scs[s].power
        THEN [scs[s] EXCEPT !.power = success]
        ELSE scs[s]]

\* the loop of Jobs.sync over the jobs yet to visit, when no stop is
\* forced: a job whose process is dead is deleted (Jobs.__delitem__)
RECURSIVE sync_jobs(_, _, _, _, _)
sync_jobs(todo, js, scs, conn, success) ==
    IF todo = <<>> THEN [jobs |-> js, scanners |-> scs, exc |-> "None"]
    ELSE IF Head(todo).alive
    THEN sync_jobs(Tail(todo), js, scs, conn, success)
    ELSE IF Head(todo).type = "Scan" /\ conn
    THEN LET freed == release_scanner(scs, Head(todo).id, success)
         IN  IF freed.exc # "None"
             THEN [jobs |-> js, scanners |-> scs, exc |-> freed.exc]
             ELSE sync_jobs(Tail(todo), WithoutJob(js, Head(todo).id),
                            freed.scanners, conn, success)
    ELSE sync_jobs(Tail(todo), WithoutJob(js, Head(todo).id), scs, conn,
                   success)

\* Jobs.sync and its handle_scanners
sync(js, forcing, scs, conn, success) ==
    LET synced == IF forcing
                  THEN [jobs |-> js, scanners |-> scs, exc |-> "None"]
                  ELSE sync_jobs(js, js, scs, conn, success)
    IN  IF synced.exc = "None" /\ conn
        THEN [synced EXCEPT !.scanners = update(synced.scanners, success)]
        ELSE synced

\* everything of the server but the record of the last RPC call
srv_state ==
    <<som_server, servers, loops, queue, next_priority, jobs, forcingStop,
      scanners, connected, next_id, rpc_server, restart>>

\* the variables the server leaves alone
SrvFrame == UNCHANGED <<meta_vars, align_vars, seg_vars, st_vars>>

\* the first statement of _run
RunBegin(l) ==
    /\ loops[l].pc = "start"
    /\ servers' = [servers EXCEPT ![loops[l].server].running = TRUE]
    /\ loops' = [loops EXCEPT ![l].pc = "loop"]
    /\ UNCHANGED <<som_server, queue, next_priority, jobs, forcingStop,
                   scanners, connected, next_id, rpc_server, restart, rpc>>
    /\ SrvFrame

\* one turn of the while loop of _run
RunTurn(l) ==
    /\ loops[l].pc = "loop"
    /\ servers[loops[l].server].running
    /\ \E resources \in BOOLEAN : \E success \in BOOLEAN :
        IF loops[l].i = 0 /\ queue # <<>>
        THEN \E made \in {attempt_job_creation(queue, next_priority, jobs,
                                               connected, resources)} :
                /\ queue' = made.queue
                /\ jobs' = made.jobs
                /\ next_priority' = made.next_priority
                /\ loops' = [loops EXCEPT ![l].i = (@ + 1) % 3]
                /\ UNCHANGED scanners
        ELSE IF loops[l].i <= 1 /\ connected
        THEN /\ scanners' = update(scanners, success)
             /\ loops' = [loops EXCEPT ![l].i = (@ + 1) % 3]
             /\ UNCHANGED <<queue, jobs, next_priority>>
        ELSE \E synced \in {sync(jobs, forcingStop, scanners, connected,
                                 success)} :
                /\ jobs' = synced.jobs
                /\ scanners' = synced.scanners
                /\ loops' = IF synced.exc = "None"
                            THEN [loops EXCEPT ![l].i = (@ + 1) % 3]
                            ELSE [loops EXCEPT ![l].pc = synced.exc]
                /\ UNCHANGED <<queue, next_priority>>
    /\ UNCHANGED <<som_server, servers, forcingStop, connected, next_id,
                   rpc_server, restart, rpc>>
    /\ SrvFrame

\* the while loop of _run ends; _shutdown_cleanup up to _wait_on_jobs
RunEnd(l) ==
    /\ loops[l].pc = "loop"
    /\ ~servers[loops[l].server].running
    /\ forcingStop' = IF running(jobs) THEN TRUE ELSE forcingStop
    /\ IF servers[loops[l].server].waitForJobsToTerminate
       THEN /\ loops' = [loops EXCEPT ![l].pc = "wait"]
            /\ UNCHANGED servers
       ELSE /\ loops' = [loops EXCEPT ![l].pc = "done"]
            /\ servers' = [servers EXCEPT ![loops[l].server].started = FALSE]
    /\ UNCHANGED <<som_server, queue, next_priority, jobs, scanners,
                   connected, next_id, rpc_server, restart, rpc>>
    /\ SrvFrame

\* _wait_on_jobs ends, no job running or max_wait_time over; then the
\* rest of _shutdown_cleanup
WaitEnd(l) ==
    /\ loops[l].pc = "wait"
    /\ \E timeout \in BOOLEAN :
        /\ ~running(jobs) \/ timeout
        /\ loops' = [loops EXCEPT ![l].pc = IF running(jobs)
                                            THEN "abandoned" ELSE "done"]
    /\ servers' = [servers EXCEPT ![loops[l].server].started = FALSE]
    /\ UNCHANGED <<som_server, queue, next_priority, jobs, forcingStop,
                   scanners, connected, next_id, rpc_server, restart, rpc>>
    /\ SrvFrame

\* the process of an active job ends
JobEnds(k) ==
    /\ jobs[k].alive
    /\ jobs' = [jobs EXCEPT ![k].alive = FALSE]
    /\ UNCHANGED <<som_server, servers, loops, queue, next_priority,
                   forcingStop, scanners, connected, next_id, rpc_server,
                   restart, rpc>>
    /\ SrvFrame

\* ScannerPowerManager._load_pm: the power managers are loaded
LoadPm ==
    /\ ~connected
    /\ connected' = TRUE
    /\ UNCHANGED <<som_server, servers, loops, queue, next_priority, jobs,
                   forcingStop, scanners, next_id, rpc_server, restart, rpc>>
    /\ SrvFrame

\* Server.start called on the server
ServerStart ==
    /\ som_server # NoServer
    /\ Len(loops) < MaxLoops
    /\ loops' = start(servers, loops, som_server)
    /\ UNCHANGED <<som_server, servers, queue, next_priority, jobs,
                   forcingStop, scanners, connected, next_id, rpc_server,
                   restart, rpc>>
    /\ SrvFrame

(***************************** the RPC interface ***************************)
\* the test of _verify_admin
verify_admin_any_user(user) == som_server # NoServer

verify_admin(user) == som_server # NoServer /\ user = Admin

\* the call is recorded with what it returned
RpcWith(method, user, wait_for_jobs_to_stop, r) ==
    rpc' = [method |-> method, user |-> user,
            wait_for_jobs_to_stop |-> wait_for_jobs_to_stop, ret |-> r]

Rpc(method, user, r) == RpcWith(method, user, FALSE, r)

\* _verify_admin refuses the call: the method is not run
RefusedWith(method, user, wait_for_jobs_to_stop) ==
    /\ RpcWith(method, user, wait_for_jobs_to_stop, "False")
    /\ UNCHANGED srv_state

Refused(method, user) == RefusedWith(method, user, FALSE)

\* InterfaceBuilder._remove_som_server
remove_som_server(srv, wait_for_jobs_to_stop) ==
    IF wait_for_jobs_to_stop THEN shutdown(srv) ELSE safe_shutdown(srv)

\* InterfaceBuilder._server_shutdown
ServerShutdown(user, wait_for_jobs_to_stop) ==
    /\ rpc_server = "up"
    /\ IF verify_admin(user)
       THEN /\ rpc_server' = "none"
            /\ servers' = [servers EXCEPT ![som_server] =
                            remove_som_server(@, wait_for_jobs_to_stop)]
            /\ RpcWith("shutdown", user, wait_for_jobs_to_stop, "True")
            /\ UNCHANGED <<som_server, loops, queue, next_priority, jobs,
                           forcingStop, scanners, connected, next_id,
                           restart>>
       ELSE RefusedWith("shutdown", user, wait_for_jobs_to_stop)
    /\ SrvFrame

\* InterfaceBuilder._server_restart, and _restart_server_thread up to its
\* wait for the server to stop serving
ServerRestart(user, wait_for_jobs_to_stop) ==
    /\ rpc_server = "up"
    /\ IF verify_admin(user)
       THEN /\ rpc_server' = "none"
            /\ servers' = [servers EXCEPT ![som_server] =
                            remove_som_server(@, wait_for_jobs_to_stop)]
            /\ restart' = "waiting"
            /\ RpcWith("restart", user, wait_for_jobs_to_stop, "True")
            /\ UNCHANGED <<som_server, loops, queue, next_priority, jobs,
                           forcingStop, scanners, connected, next_id>>
       ELSE RefusedWith("restart", user, wait_for_jobs_to_stop)
    /\ SrvFrame

\* _restart_server_thread once the server is not serving: a new Server is
\* made and started, and the RPC server with it
RestartThread ==
    /\ restart = "waiting"
    /\ ~serving(servers[som_server])
    /\ Len(servers) < MaxServers
    /\ Len(loops) < MaxLoops
    /\ servers' = Append(servers, Server)
    /\ som_server' = Len(servers) + 1
    /\ loops' = start(servers', loops, som_server')
    /\ rpc_server' = "up"
    /\ restart' = "idle"
    /\ UNCHANGED <<queue, next_priority, jobs, forcingStop, scanners,
                   connected, next_id, rpc>>
    /\ SrvFrame

\* InterfaceBuilder._server_communicate; sent is what the pipe of an active
\* job says of the message
ServerCommunicate(user, job_id, sent) ==
    /\ rpc_server = "up"
    /\ IF ~verify_admin(user) THEN Refused("communicate", user)
       ELSE IF queue_contains(queue, job_id)
       THEN \E success \in BOOLEAN :
            \E freed \in {remove_and_free_potential_scanner_claim(
                            queue, scanners,
                            queue[CHOOSE k \in 1..Len(queue) :
                                    queue[k].id = job_id],
                            success)} :
                /\ queue' = freed.queue
                /\ scanners' = freed.scanners
                /\ Rpc("communicate", user,
                       IF freed.exc # "None" THEN freed.exc
                       ELSE Ret(freed.ret))
                /\ UNCHANGED <<som_server, servers, loops, next_priority,
                               jobs, forcingStop, connected, next_id,
                               rpc_server, restart>>
       ELSE /\ Rpc("communicate", user,
                   Ret(ActiveJob(jobs, job_id) # NoJob /\ sent))
            /\ UNCHANGED srv_state
    /\ SrvFrame

\* Server.verify_scanner_claim and Server.enqueue, from the four
\* _server_create_..._job methods, of a model that is valid
ServerCreateJob(user, job_type, scanner, start_condition) ==
    /\ rpc_server = "up"
    /\ IF ~verify_admin(user) THEN Refused("create_job", user)
       ELSE \E success \in BOOLEAN :
            \E rpc_job \in {Job(next_id, job_type, -1, scanner,
                                start_condition)} :
            \E claim \in {request_claim(scanners, queue, jobs, rpc_job,
                                        success)} :
            IF job_type = "Scan" /\ (~connected \/ DOMAIN scanners = {})
            THEN /\ Rpc("create_job", user, "False")
                 /\ UNCHANGED srv_state
            ELSE IF job_type = "Scan" /\ (claim.exc # "None" \/ ~claim.ret)
            THEN /\ Rpc("create_job", user,
                        IF claim.exc # "None" THEN claim.exc ELSE "False")
                 /\ UNCHANGED srv_state
            ELSE /\ scanners' = IF job_type = "Scan" THEN claim.scanners
                                ELSE scanners
                 /\ queue' = add(queue, rpc_job)
                 /\ next_id' = next_id + 1
                 /\ Rpc("create_job", user, "Id")
                 /\ UNCHANGED <<som_server, servers, loops, next_priority,
                                jobs, forcingStop, connected, rpc_server,
                                restart>>
    /\ SrvFrame

\* InterfaceBuilder._server_remove_from_queue: the id, a str, is given to
\* Queue.remove where a job model is expected
ServerRemoveFromQueue(user, job_id) ==
    /\ rpc_server = "up"
    /\ IF ~verify_admin(user) THEN Refused("remove_from_queue", user)
       ELSE /\ Rpc("remove_from_queue", user, "AttributeError")
            /\ UNCHANGED srv_state
    /\ SrvFrame

\* the while loop of _server_flush_queue
RECURSIVE flush_queue(_, _, _, _, _)
flush_queue(q, np, scs, js, success) ==
    IF q = <<>>
    THEN [queue |-> q, next_priority |-> np, scanners |-> scs,
          exc |-> "None"]
    ELSE LET hp == get_highest_priority(q, js, np)
             freed == remove_and_free_potential_scanner_claim(
                          q, scs, hp.job, success)
         IN  IF hp.job = NoJob
             THEN [queue |-> q, next_priority |-> hp.next_priority,
                   scanners |-> scs, exc |-> "AttributeError"]
             ELSE IF freed.exc # "None"
             THEN [queue |-> freed.queue, next_priority |-> hp.next_priority,
                   scanners |-> freed.scanners, exc |-> freed.exc]
             ELSE flush_queue(freed.queue, hp.next_priority, freed.scanners,
                              js, success)

\* InterfaceBuilder._server_flush_queue
ServerFlushQueue(user) ==
    /\ rpc_server = "up"
    /\ IF ~verify_admin(user) THEN Refused("flush_queue", user)
       ELSE \E success \in BOOLEAN :
            \E flushed \in {flush_queue(queue, next_priority, scanners, jobs,
                                        success)} :
                /\ queue' = flushed.queue
                /\ next_priority' = flushed.next_priority
                /\ scanners' = flushed.scanners
                /\ Rpc("flush_queue", user,
                       IF flushed.exc # "None" THEN flushed.exc ELSE "True")
                /\ UNCHANGED <<som_server, servers, loops, jobs, forcingStop,
                               connected, next_id, rpc_server, restart>>
    /\ SrvFrame

\* ScannerPowerManager.request_on: the scanner is put in line to be turned
\* on, which _manage_claimer does at the next update
request_on(scs, job_id) ==
    LET found == get_scanner_by_owner_id(scs, job_id)
    IN  IF found.exc # "None"
        THEN [scanners |-> scs, ret |-> FALSE, exc |-> found.exc]
        ELSE IF found.scanner = 0
        THEN [scanners |-> scs, ret |-> FALSE, exc |-> "None"]
        ELSE [scanners |-> [scs EXCEPT ![found.scanner].claiming = TRUE],
              ret |-> TRUE, exc |-> "None"]

\* ScannerPowerManager.request_off
request_off(scs, job_id, success) ==
    LET found == get_scanner_by_owner_id(scs, job_id)
    IN  IF found.exc # "None"
        THEN [scanners |-> scs, ret |-> FALSE, exc |-> found.exc]
        ELSE IF found.scanner = 0
        THEN [scanners |-> scs, ret |-> FALSE, exc |-> "None"]
        ELSE [scanners |->
                [scs EXCEPT ![found.scanner] = power_down(@, success)],
              ret |-> success, exc |-> "None"]

Operations == {"ON", "OFF", "RELEASE"}

\* InterfaceBuilder._server_request_scanner_operation
ServerRequestScannerOperation(user, job_id, scanner, operation) ==
    /\ rpc_server = "up"
    /\ IF ~verify_admin(user) THEN Refused("request_scanner_operation", user)
       ELSE IF ~connected \/ scanner \notin DOMAIN scanners
       THEN /\ Rpc("request_scanner_operation", user, "False")
            /\ UNCHANGED srv_state
       ELSE IF scanners[scanner].owner = ReleasedOwner
       THEN /\ Rpc("request_scanner_operation", user, "AttributeError")
            /\ UNCHANGED srv_state
       ELSE IF scanners[scanner].owner = NoOwner
               \/ scanners[scanner].owner # job_id
       THEN /\ Rpc("request_scanner_operation", user, "False")
            /\ UNCHANGED srv_state
       ELSE \E success \in BOOLEAN :
            \E done \in {IF operation = "ON"
                         THEN request_on(scanners, job_id)
                         ELSE IF operation = "OFF"
                         THEN request_off(scanners, job_id, success)
                         ELSE release_scanner(scanners, job_id, success)} :
                /\ scanners' = done.scanners
                /\ Rpc("request_scanner_operation", user,
                       IF done.exc # "None" THEN done.exc ELSE Ret(done.ret))
                /\ UNCHANGED <<som_server, servers, loops, queue,
                               next_priority, jobs, forcingStop, connected,
                               next_id, rpc_server, restart>>
    /\ SrvFrame

\* a job an earlier run of the server left active in its jobs file
LoadedJobId == 8

\* the job queued at position k of the queue file: a Scan job asks for
\* scanner k, a Compile job waits for nothing, for the loaded job or for
\* the job queued after it
Queued(k, len, job_type, cond, q) ==
    Job(k, job_type,
        Len(get_job_by_type(q, job_type)) + 1,
        IF job_type = "Scan" THEN k ELSE 0,
        IF job_type # "Compile" \/ cond = 0 THEN NoJobId
        ELSE IF cond = 1 THEN LoadedJobId
        ELSE (k % len) + 1)

RECURSIVE QueueFile(_, _, _, _)
QueueFile(k, len, types, conds) ==
    IF k = 0 THEN <<>>
    ELSE LET q == QueueFile(k - 1, len, types, conds)
         IN  Append(q, Queued(k, len, types[k], conds[k], q))

\* after InterfaceBuilder.__one_init__: a Server made and started, its
\* queue, jobs and scanners as the files of the earlier run give them,
\* the power managers not loaded yet, the RPC server taking requests;
\* owners are the owners the scanner file may give an unclaimed scanner
InitServerWith(max_queued, owners) ==
    /\ \E len \in 0..max_queued :
       \E types \in [1..len -> {JOB_TYPE[t] : t \in 1..Len(JOB_TYPE)}] :
       \E conds \in [1..len -> 0..2] :
       \E stale \in [1..MaxScanners -> owners] :
       \E power \in BOOLEAN :
        /\ (\A k \in 1..len : types[k] # "Compile" => conds[k] = 0)
        /\ (\A k \in 1..len : conds[k] = 2 => len >= 2)
        /\ queue = QueueFile(len, len, types, conds)
        /\ next_id = len + 1
        /\ scanners =
            [s \in 1..MaxScanners |->
                IF s <= len /\ types[s] = "Scan"
                THEN Scanner(s, FALSE, FALSE)
                ELSE Scanner(stale[s], stale[s] # NoOwner /\ power, FALSE)]
    /\ jobs \in {<<>>}
            \cup {<<[Process(Job(LoadedJobId, "Compile", 1, 0, NoJobId))
                     EXCEPT !.alive = a]>> : a \in BOOLEAN}
    /\ som_server = 1
    /\ servers = <<Server>>
    /\ loops = start(servers, <<>>, 1)
    /\ next_priority = "Scan"
    /\ forcingStop = FALSE
    /\ connected = FALSE
    /\ rpc_server = "up"
    /\ restart = "idle"
    /\ rpc = NoRpc
    /\ plate = <<>>
    /\ phenotypes = <<>>
    /\ meta_phenotype = "none"
    /\ ret = NoRet
    /\ AlignIdle
    /\ SegIdle
    /\ StIdle

\* the RPC methods behind _verify_admin, called by every user, while job
\* ids up to max_jobs are given out
RpcCall(max_jobs) ==
    \E user \in Users :
        \/ \E wait \in BOOLEAN : ServerShutdown(user, wait)
        \/ \E wait \in BOOLEAN : ServerRestart(user, wait)
        \/ \E job_id \in 1..max_jobs \cup {LoadedJobId} :
           \E sent \in BOOLEAN :
                ServerCommunicate(user, job_id, sent)
        \/ \E t \in 1..Len(JOB_TYPE) :
           \E scanner \in 0..MaxScanners :
           \E start_condition \in 0..max_jobs :
                /\ next_id <= max_jobs
                /\ (JOB_TYPE[t] = "Scan") = (scanner # 0)
                /\ JOB_TYPE[t] # "Compile" => start_condition = NoJobId
                /\ ServerCreateJob(user, JOB_TYPE[t], scanner,
                                   start_condition)
        \/ \E job_id \in 1..max_jobs : ServerRemoveFromQueue(user, job_id)
        \/ ServerFlushQueue(user)
        \/ \E job_id \in 1..max_jobs :
           \E scanner \in 1..(MaxScanners + 1) :
           \E operation \in Operations :
                ServerRequestScannerOperation(user, job_id, scanner,
                                              operation)

InitAdmin == InitServerWith(MaxAdminQueued, {NoOwner})
NextAdmin == RpcCall(MaxAdminJobs) \/ RestartThread \/ LoadPm
SpecAdmin == InitAdmin /\ [][NextAdmin]_vars

\* C21: a call of an RPC method behind the admin check by a user that is
\* not the server's admin returns False and leaves the server, the queue,
\* the jobs and the scanners as they were.
C21_NonAdminCallsAreRefused ==
    [][(rpc' # rpc /\ rpc'.user # Admin) =>
            /\ rpc'.ret = "False"
            /\ UNCHANGED srv_state]_vars

\* a user that is not the admin asked for the queue to be flushed while
\* jobs were queued and a scanner was claimed
C21_Witness ==
    /\ rpc.method = "flush_queue"
    /\ rpc.user = "guest"
    /\ rpc.ret = "False"
    /\ queue # <<>>
    /\ \E s \in DOMAIN scanners : queue_contains(queue, scanners[s].owner)

\* C22: after the admin's flush_queue the call has returned True, the job
\* queue is empty, and no scanner is still owned by a job that was queued:
\* every scanner is unowned, released, or owned by a job of an earlier run.
C22_FlushEmptiesTheQueue ==
    (rpc.method = "flush_queue" /\ rpc.user = Admin) =>
        /\ rpc.ret = "True"
        /\ queue = <<>>
        /\ \A s \in DOMAIN scanners :
            scanners[s].owner \in {NoOwner, ReleasedOwner, StaleJobId}

(***************************** PhenotyperState *****************************)
\* scanomatic/data_processing/pheno/state.py.  An attribute is "None" or
\* "array", the data it holds; _vector_phenotypes is "unset" until assigned.

\* a PhenotyperState with its extracted phenotypes, filter and undo history
PhenotyperState(extracted, smooth, times, vector_meta, vector, filter, undo) ==
    [made |-> TRUE,
     phenotypes |-> extracted,
     raw_growth_data |-> "array",
     phenotype_filter |-> filter,
     phenotype_filter_undo |-> undo,
     smooth_growth_data |-> smooth,
     times_data |-> times,
     vector_meta_phenotypes |-> vector_meta,
     vector_phenotypes |-> vector,
     _vector_phenotypes |-> "unset"]

\* no wipe called yet
NoWipe == [called |-> FALSE]

\* PhenotyperState.wipe_extracted_phenotypes
wipe_extracted_phenotypes(self, keep_filter) ==
    [self EXCEPT
        !.phenotypes = "None",
        !._vector_phenotypes = "None",
        !.vector_meta_phenotypes = "None",
        !.phenotype_filter = IF keep_filter THEN @ ELSE "None",
        !.phenotype_filter_undo = IF keep_filter THEN @ ELSE "None"]

\* the call, with the state it was made on kept for comparison
Wipe(keep_filter) ==
    /\ state.made
    /\ state' = wipe_extracted_phenotypes(state, keep_filter)
    /\ wiped' = [called |-> TRUE, keep_filter |-> keep_filter,
                 before |-> state]
    /\ UNCHANGED <<meta_vars, align_vars, seg_vars, srv_vars>>

Optional == {"None", "array"}

\* every state object: each optional attribute set or not
InitWipe ==
    /\ \E extracted \in Optional : \E smooth \in Optional :
       \E times \in Optional : \E vector_meta \in Optional :
       \E vector \in Optional : \E filter \in Optional :
       \E undo \in Optional :
        state = PhenotyperState(extracted, smooth, times, vector_meta,
                                vector, filter, undo)
    /\ wiped = NoWipe
    /\ plate = <<>>
    /\ phenotypes = <<>>
    /\ meta_phenotype = "none"
    /\ ret = NoRet
    /\ AlignIdle
    /\ SegIdle
    /\ SrvIdle

NextWipe == \E keep_filter \in BOOLEAN : Wipe(keep_filter)
SpecWipe == InitWipe /\ [][NextWipe]_vars

\* C23: after wipe_extracted_phenotypes the phenotypes, the stored phase
\* vectors (vector_phenotypes) and vector_meta_phenotypes are None and the
\* raw, smooth and times data are as before; phenotype_filter and
\* phenotype_filter_undo are None after keep_filter=False and as before
\* after keep_filter=True.
C23_WipeClearsExtractedPhenotypes ==
    wiped.called =>
        /\ state.phenotypes = "None"
        /\ state.vector_phenotypes = "None"
        /\ state.vector_meta_phenotypes = "None"
        /\ state.raw_growth_data = wiped.before.raw_growth_data
        /\ state.smooth_growth_data = wiped.before.smooth_growth_data
        /\ state.times_data = wiped.before.times_data
        /\ IF wiped.keep_filter
           THEN /\ state.phenotype_filter = wiped.before.phenotype_filter
                /\ state.phenotype_filter_undo =
                        wiped.before.phenotype_filter_undo
           ELSE /\ state.phenotype_filter = "None"
                /\ state.phenotype_filter_undo = "None"

(***************************** the two major impulses **********************)
\* the position in the cell of the Impulse the yield-ranking selector of
\* extract_phenotypes takes as major (index -1 of the argsort over the
\* cell's Impulses), -1 if it takes none
major_impulse_by_yield_ranking(cell) ==
    LET idx == SelectIdx(cell.v, Impulse, 1)
        matched == [i \in 1..Len(idx) |-> At(cell.v, idx[i]).data]
    IN  IF Len(matched) < 1 THEN Num(-1)
        ELSE LET sel == SelectPhase(matched, "major")
             IN  IF IsRaise(sel) THEN Num(-1) ELSE Num(At(idx, sel.n))

\* C24: once a major-impulse phenotype has been extracted, for every cell
\* the Impulse the yield-ranking selector takes as major stands at the
\* position _py_get_major_impulse_for_plate returns, whatever the doublings
\* (ties and zeros included), and both take none for a cell without Impulse.
C24_SelectorAndIndexAgree ==
    meta_phenotype \in {"MajorImpulseYieldContribution",
                        "MajorImpulseFlankAsymmetry"} =>
        \A c \in 1..Len(plate) :
            major_impulse_by_yield_ranking(plate[c])
                = py_get_major_impulse_for_plate(plate[c])

MaxLoopQueued == 2     \* most jobs the queue file holds where the loop runs

\* the _run thread of the one server, the power managers being loaded and
\* the jobs ending meanwhile
InitLoop == InitServerWith(MaxLoopQueued, {NoOwner})
NextLoop ==
    \/ LoadPm
    \/ \E l \in DOMAIN loops : RunBegin(l) \/ RunTurn(l)
    \/ \E k \in DOMAIN jobs : JobEnds(k)
SpecLoop == InitLoop /\ [][NextLoop]_vars

\* the queued jobs a step takes out of the queue
LeftQueue ==
    {k \in 1..Len(queue) : ~queue_contains(queue', queue[k].id)}

\* C26 as stated: a turn of the server loop takes a job out of the queue
\* only if the job is an active job after the turn, so no job is lost.
C26_NoQueuedJobIsLost ==
    [][loops' # loops =>
            \A k \in LeftQueue : ActiveJob(jobs', queue[k].id) # NoJob]_vars

\* C26 amended: a turn of the server loop takes at most one job out of the
\* queue, and that job is an active job after the turn unless Jobs.add
\* dropped it, which in a queue of known job types with distinct ids is a
\* Scan job met while the scanners are not connected.
C26_QueuedJobsAreLaunchedOrDropped ==
    [][loops' # loops =>
            /\ Cardinality(LeftQueue) <= 1
            /\ \A k \in LeftQueue :
                \/ ActiveJob(jobs', queue[k].id) # NoJob
                \/ queue[k].type = "Scan" /\ ~connected]_vars

\* a Scan job of the queue file was dropped before the power managers were
\* loaded: neither queued nor active, and its scanner still names it owner
C26_Witness ==
    /\ ~connected
    /\ \E s \in DOMAIN scanners :
        /\ scanners[s].owner \in 1..(next_id - 1)
        /\ ~queue_contains(queue, scanners[s].owner)
        /\ ActiveJob(jobs, scanners[s].owner) = NoJob


\* the server loop under its scheduling: the _run thread is started and
\* takes its turns every 0.07 s for as long as it is in its while loop, the
\* thread of _load_pm runs to its end, and the job processes come to an end
SpecLoopFair ==
    /\ InitLoop
    /\ [][NextLoop]_vars
    /\ WF_vars(\E l \in DOMAIN loops : RunBegin(l))
    /\ WF_vars(\E l \in DOMAIN loops : RunTurn(l))
    /\ WF_vars(LoadPm)
    /\ WF_vars(\E k \in DOMAIN jobs : JobEnds(k))

\* the server loop is polling the queue
Polling ==
    \E l \in DOMAIN loops :
        loops[l].pc \in {"start", "loop"}

\* the queued job of that id is allowed to start
Startable(job_id) ==
    \E k \in 1..Len(queue) :
        /\ queue[k].id = job_id
        /\ queue[k].type = "Compile" => start_condition_met(queue, jobs,
                                                            queue[k])

\* get_highest_priority returns the job of that id when polled now
Returned(job_id) ==
    get_highest_priority(queue, jobs, next_priority).job.id = job_id

\* C27: while the server loop polls get_highest_priority, every queued job
\* that is allowed to start is eventually returned (or has left the queue):
\* the rotation does not stay for ever on a type whose queued jobs are all
\* blocked while a startable job of another type waits.
C27_StartableJobIsEventuallyReturned ==
    \A job_id \in 1..MaxLoopQueued :
        (Polling /\ Startable(job_id))
            ~> (Returned(job_id) \/ ~queue_contains(queue, job_id)
                \/ ~Polling)


(***************************** the scanner claims **************************)
\* the admin's calls that claim and release scanners
ClaimCalls ==
    \/ \E scanner \in 1..MaxScanners :
        /\ next_id <= MaxJobs
        /\ ServerCreateJob(Admin, "Scan", scanner, NoJobId)
    \/ \E job_id \in 1..MaxJobs :
       \E sent \in BOOLEAN :
            ServerCommunicate(Admin, job_id, sent)
    \/ \E job_id \in 1..MaxJobs :
       \E scanner \in 1..MaxScanners :
       \E operation \in Operations :
            ServerRequestScannerOperation(Admin, job_id, scanner, operation)

\* those calls, with the threads of _run and of _load_pm and the job
\* processes running beside them
InitClaims == InitServerWith(MaxQueued, {NoOwner, StaleJobId})
NextClaims ==
    \/ ClaimCalls
    \/ LoadPm
    \/ \E l \in DOMAIN loops : RunBegin(l) \/ RunTurn(l)
    \/ \E k \in DOMAIN jobs : JobEnds(k)
SpecClaims == InitClaims /\ [][NextClaims]_vars

\* the scanner has no owning job
Unowned(scanner) == scanner.owner \in {NoOwner, ReleasedOwner}

\* C28: a scanner has one owner field, and a step makes another job its
\* owner only if the scanner was unowned (never claimed, or released by
\* its owner) or its owner's process was dead; and a claim requested for a
\* scanner that its owner has released is answered, by the job's id or by
\* False, not by an exception: the released scanner is claimable again.
C28_ScannerHasOneOwner ==
    [][\A s \in DOMAIN scanners :
        /\ (scanners'[s].owner # scanners[s].owner
            /\ ~Unowned(scanners'[s])) =>
                \/ Unowned(scanners[s])
                \/ OwnerProcess(queue, jobs, scanners[s].owner) = "dead"
        /\ (scanners[s].owner = ReleasedOwner
            /\ rpc' # rpc /\ rpc'.method = "create_job"
            /\ rpc'.user = Admin /\ connected) =>
                rpc'.ret \in {"Id", "False"}]_vars


(***************************** starting and stopping ***********************)
\* the calls that stop the server, by every user
LifeCalls ==
    \E user \in Users :
    \E wait_for_jobs_to_stop \in BOOLEAN :
        \/ ServerShutdown(user, wait_for_jobs_to_stop)
        \/ ServerRestart(user, wait_for_jobs_to_stop)

\* those calls and Server.start, with the restart thread, the threads of
\* _run and of _load_pm and the job processes running beside them
InitLife == InitServerWith(MaxQueued, {NoOwner})
NextLife ==
    \/ LifeCalls
    \/ RestartThread
    \/ ServerStart
    \/ LoadPm
    \/ \E l \in DOMAIN loops :
        RunBegin(l) \/ RunTurn(l) \/ RunEnd(l) \/ WaitEnd(l)
    \/ \E k \in DOMAIN jobs : JobEnds(k)
SpecLife == InitLife /\ [][NextLife]_vars

\* the admin's last call asked the server of that thread to stop
StopAsked(l) ==
    /\ rpc.method \in {"shutdown", "restart"}
    /\ rpc.user = Admin
    /\ rpc.ret = "True"
    /\ loops[l].server = som_server

\* C29: after a shutdown asked with wait_for_jobs_to_stop = True the
\* shutdown cleanup of the run loop completes only when no job is running
\* any more (or gives up when the maximum wait time is over), and after
\* one asked with wait_for_jobs_to_stop = False it does not wait.
C29_ShutdownWaitsIfAsked ==
    [][\A l \in DOMAIN loops :
        (StopAsked(l) /\ loops'[l].pc # loops[l].pc) =>
            /\ (rpc.wait_for_jobs_to_stop /\ loops'[l].pc = "done") =>
                    ~running(jobs)
            /\ ~rpc.wait_for_jobs_to_stop => loops'[l].pc # "wait"]_vars

\* the thread is in _run and has not finished the shutdown cleanup
Active(l) == loops[l].pc \in {"start", "loop", "wait"}

\* C30: no server has two run loops active, a server is serving while its
\* run loop is in the while loop or in the shutdown cleanup, and the
\* server a restart makes is started only when the old loop has ended, so
\* at most one run loop is active at any time.
C30_OneRunLoop ==
    /\ \A s \in DOMAIN servers :
        Cardinality({l \in DOMAIN loops :
                        loops[l].server = s /\ Active(l)}) <= 1
    /\ \A l \in DOMAIN loops :
        loops[l].pc \in {"loop", "wait"} =>
            serving(servers[loops[l].server])
    /\ Cardinality({l \in DOMAIN loops : Active(l)}) <= 1

====
